---- MODULE Spec2Model ----
(***************************************************************************)
(* obdeck: ESP32 OBD2 display.  Two threads share the record obd_data under *)
(* data_lock: obd2_thread (acquisition: BluetoothConnection, ELM327 init,   *)
(* DTC read/clear, round-robin PID polling) and display_thread (snapshot,   *)
(* touch handling, intent flags).                                           *)
(*                                                                          *)
(* Text (command responses, DTC codes) is a sequence of one-character       *)
(* strings, so that the parsers are computed character by character.        *)
(*                                                                          *)
(* Spec is the program as main() starts it (src/main.py with                *)
(* src/obd2/bluetooth.py and config.py); FairSpec adds that both threads    *)
(* keep being scheduled.  ConnSpec is one BluetoothConnection, of either    *)
(* src/obd2/bluetooth.py or micropython/obd2/bluetooth.py, under a caller   *)
(* of connect(), init_elm327(), disconnect() and reconnect(), for every     *)
(* PIN configuration.  SendSpec is one send_command call, step by step,     *)
(* against an adapter that delivers bytes at any moment.  ParseSpec applies *)
(* parse_response and is_valid_response, and DtcSpec decode_dtc and         *)
(* parse_dtc_response, once to each input of a set of texts or bytes.       *)
(* DisplaySpec is display_thread on its own, with every button of the       *)
(* screen in reach and obd2_thread seen through its writes to obd_data.     *)
(***************************************************************************)
EXTENDS Integers, Sequences, FiniteSets, TLC

(***************************************************************************)
(* Bounds of the model                                                      *)
(***************************************************************************)
\* obd2_thread runs at most this many iterations of its while-True loop
MaxCycles == 2
\* the API driver of BluetoothConnection makes at most this many calls
MaxCalls == 2
\* _connect_btm tries at most this many device names
MaxDeviceNames == 2
\* the adapter delivers at most this many bursts of bytes during one call
MaxBursts == 2
\* the timeout of a send_command call is at most this many polling intervals
MaxPolls == 2

\* the consecutive-failure threshold of the polling state (not in the code)
PollFailThreshold == 1

(***************************************************************************)
(* Text helpers (Python str operations used by the code)                    *)
(***************************************************************************)
None == <<"None">>

Truthy(r) == r # None /\ r # <<>>

Contains(s, sub) ==
    \E i \in 1..(Len(s) - Len(sub) + 1) : SubSeq(s, i, i + Len(sub) - 1) = sub

StartsWith(s, p) == Len(s) >= Len(p) /\ SubSeq(s, 1, Len(p)) = p

RemoveChars(s, cs) == SelectSeq(s, LAMBDA c : c \notin cs)

Whitespace == {" ", "\r", "\n", "\t"}

LowerLetters == <<"a","b","c","d","e","f","g","h","i","j","k","l","m",
                  "n","o","p","q","r","s","t","u","v","w","x","y","z">>
UpperLetters == <<"A","B","C","D","E","F","G","H","I","J","K","L","M",
                  "N","O","P","Q","R","S","T","U","V","W","X","Y","Z">>

UpperChar(c) ==
    IF \E i \in 1..26 : LowerLetters[i] = c
    THEN UpperLetters[CHOOSE i \in 1..26 : LowerLetters[i] = c]
    ELSE c

\* an upper() that leaves the text as it is
Upper_Identity(s) == s

Upper(s) == [i \in 1..Len(s) |-> UpperChar(s[i])]

RECURSIVE LStrip(_)
LStrip(s) == IF s # <<>> /\ Head(s) \in Whitespace THEN LStrip(Tail(s)) ELSE s

RECURSIVE RStrip(_)
RStrip(s) ==
    IF s # <<>> /\ s[Len(s)] \in Whitespace
    THEN RStrip(SubSeq(s, 1, Len(s) - 1))
    ELSE s

Strip(s) == RStrip(LStrip(s))

\* Python slice s[a:b] with 0-based a, b (clamped to the length)
Slice(s, a, b) ==
    LET hi == IF b > Len(s) THEN Len(s) ELSE b
    IN  IF a >= hi THEN <<>> ELSE SubSeq(s, a + 1, hi)

HexDigits == <<"0","1","2","3","4","5","6","7","8","9","A","B","C","D","E","F">>

IsHexChar(c) == \E i \in 1..16 : HexDigits[i] = UpperChar(c)

HexCharVal(c) == (CHOOSE i \in 1..16 : HexDigits[i] = UpperChar(c)) - 1

\* int(s, 16) ignores surrounding whitespace and succeeds on a non-empty run
\* of hex digits; otherwise it raises ValueError
IsHex(s) == Strip(s) # <<>> /\ \A i \in 1..Len(Strip(s)) : IsHexChar(Strip(s)[i])

RECURSIVE HexDigitsVal(_)
HexDigitsVal(s) ==
    IF s = <<>> THEN 0
    ELSE 16 * HexDigitsVal(SubSeq(s, 1, Len(s) - 1)) + HexCharVal(s[Len(s)])

HexVal(s) == HexDigitsVal(Strip(s))

(***************************************************************************)
(* obd2/commands.py                                                         *)
(***************************************************************************)
PIDS(pid_name) ==
    CASE pid_name = "COOLANT_TEMP"    -> <<"0","5">>
      [] pid_name = "RPM"             -> <<"0","C">>
      [] pid_name = "SPEED"           -> <<"0","D">>
      [] pid_name = "INTAKE_TEMP"     -> <<"0","F">>
      [] pid_name = "THROTTLE"        -> <<"1","1">>
      [] pid_name = "MAF"             -> <<"1","0">>
      [] pid_name = "FUEL_PRESSURE"   -> <<"0","A">>
      [] pid_name = "BATTERY_VOLTAGE" -> <<"4","2">>
      [] pid_name = "ENGINE_LOAD"     -> <<"0","4">>
      [] pid_name = "RUNTIME"         -> <<"1","F">>

get_pid_command(pid_name) == <<"0","1">> \o PIDS(pid_name)

get_supported_pids ==
    <<"COOLANT_TEMP", "RPM", "SPEED", "INTAKE_TEMP", "THROTTLE", "BATTERY_VOLTAGE">>

\* a decode_dtc that keeps two bits of the low nibble of byte1
decode_dtc_TwoBitThird(byte1, byte2) ==
    LET prefixes == <<"P", "C", "B", "U">>
    IN  << prefixes[((byte1 \div 64) % 4) + 1], HexDigits[((byte1 \div 16) % 4) + 1],
           HexDigits[(byte1 % 4) + 1], HexDigits[((byte2 \div 16) % 16) + 1],
           HexDigits[(byte2 % 16) + 1] >>

\* DTCCommands.decode_dtc: category letter from the top two bits of byte1
decode_dtc(byte1, byte2) ==
    LET prefixes     == <<"P", "C", "B", "U">>
        first_digit  == (byte1 \div 64) % 4
        second_digit == (byte1 \div 16) % 4
        third_digit  == byte1 % 16
        fourth_digit == (byte2 \div 16) % 16
        fifth_digit  == byte2 % 16
    IN  << prefixes[first_digit + 1], HexDigits[second_digit + 1],
           HexDigits[third_digit + 1], HexDigits[fourth_digit + 1],
           HexDigits[fifth_digit + 1] >>

(***************************************************************************)
(* obd2/parser.py.  A numeric value is the exact fraction <<num, den>>.     *)
(***************************************************************************)
NoValue == <<>>

_parse_single_byte(hex_data, pid) ==
    LET sa == Slice(hex_data, 0, 2)
        a  == HexVal(sa)
    IN  IF ~IsHex(sa) THEN NoValue
        ELSE CASE pid \in {<<"0","5">>, <<"0","F">>} -> <<a - 40, 1>>
               [] pid = <<"0","D">>                   -> <<a, 1>>
               [] pid \in {<<"1","1">>, <<"0","4">>} -> <<a * 100, 255>>
               [] pid = <<"0","A">>                   -> <<a * 3, 1>>

\* a two-byte decode that takes the second byte alone
_parse_two_bytes_LowByteOnly(hex_data, pid) ==
    LET sb == Slice(hex_data, 2, 4)
        b  == HexVal(sb)
    IN  IF ~IsHex(sb) THEN NoValue
        ELSE CASE pid = <<"0","C">> -> <<b, 4>>
               [] pid = <<"4","2">> -> <<b, 1000>>
               [] pid = <<"1","0">> -> <<b, 100>>
               [] pid = <<"1","F">> -> <<b, 1>>

_parse_two_bytes(hex_data, pid) ==
    LET sa == Slice(hex_data, 0, 2)
        sb == Slice(hex_data, 2, 4)
        a  == HexVal(sa)
        b  == HexVal(sb)
    IN  IF ~IsHex(sa) \/ ~IsHex(sb) THEN NoValue
        ELSE CASE pid = <<"0","C">> -> <<a * 256 + b, 4>>
               [] pid = <<"4","2">> -> <<a * 256 + b, 1000>>
               [] pid = <<"1","0">> -> <<a * 256 + b, 100>>
               [] pid = <<"1","F">> -> <<a * 256 + b, 1>>

NO_DATA == <<"N","O"," ","D","A","T","A">>

parse_response(response, pid) ==
    IF ~Truthy(response) \/ Contains(response, NO_DATA) THEN NoValue
    ELSE LET data     == RemoveChars(response, {" ", ">", "\r", "\n"})
             hex_data == Slice(data, 4, Len(data))
         IN  IF ~StartsWith(data, <<"4","1">>) THEN NoValue
             ELSE IF pid \in {<<"0","5">>, <<"0","D">>, <<"0","F">>,
                              <<"1","1">>, <<"0","A">>, <<"0","4">>}
                  THEN _parse_single_byte(hex_data, pid)
             ELSE IF pid \in {<<"0","C">>, <<"4","2">>, <<"1","0">>, <<"1","F">>}
                  THEN _parse_two_bytes(hex_data, pid)
             ELSE NoValue

error_keywords ==
    { NO_DATA, <<"E","R","R","O","R">>, <<"U","N","A","B","L","E">>,
      <<"B","U","S"," ","I","N","I","T">>, <<"?">> }

is_valid_response(response) ==
    IF ~Truthy(response) THEN FALSE
    ELSE LET data       == Upper(Strip(response))
             clean_data == RemoveChars(data, {" "})
         IN  /\ \A keyword \in error_keywords : ~Contains(data, keyword)
             /\ StartsWith(clean_data, <<"4","1">>)

\* int(value) of a non-negative fraction
IntOf(v) == <<v[1] \div v[2], 1>>

\* parse_dtc_response: [raised, dtcs]; raised is the ValueError of int(.., 16)
RECURSIVE dtc_walk(_, _, _)
dtc_walk(data, i, dtcs) ==
    IF i + 4 > Len(data) THEN [raised |-> FALSE, dtcs |-> dtcs]
    ELSE LET s1 == Slice(data, i, i + 2)
             s2 == Slice(data, i + 2, i + 4)
         IN  IF ~IsHex(s1) \/ ~IsHex(s2) THEN [raised |-> TRUE, dtcs |-> dtcs]
             ELSE IF HexVal(s1) = 0 /\ HexVal(s2) = 0
                  THEN [raised |-> FALSE, dtcs |-> dtcs]
             ELSE dtc_walk(data, i + 4,
                           Append(dtcs, decode_dtc(HexVal(s1), HexVal(s2))))

\* a parse_dtc_response that decodes from the first character on
parse_dtc_response_NoHeader(response) ==
    IF ~Truthy(response) \/ Contains(response, NO_DATA)
    THEN [raised |-> FALSE, dtcs |-> <<>>]
    ELSE dtc_walk(Upper(RemoveChars(response, {" "})), 0, <<>>)

parse_dtc_response(response) ==
    IF ~Truthy(response) \/ Contains(response, NO_DATA)
    THEN [raised |-> FALSE, dtcs |-> <<>>]
    ELSE dtc_walk(Upper(RemoveChars(response, {" "})), 4, <<>>)

(***************************************************************************)
(* Adapter behaviour: the response texts send_command can return, as small  *)
(* sets of concrete texts (None = timeout with no bytes, or an exception).  *)
(***************************************************************************)
R_OK      == <<"O","K","\r",">">>
R_ERROR   == <<"E","R","R","O","R","\r",">">>
R_NODATA  == <<"N","O"," ","D","A","T","A","\r",">">>
R_QMARK   == <<"?","\r",">">>
R_ACK44   == <<"4","4","\r",">">>
\* Mode 03 responses: two codes, and one whose last pair is cut short
R_DTC2    == <<"4","3","0","2","0","1","3","3","0","4","2","0","0","0","0","0","\r",">">>
R_DTCBAD  == <<"4","3","0","1","0","1","\r",">">>

PollData(pid_name) ==
    CASE pid_name = "COOLANT_TEMP"    -> <<"7","B">>
      [] pid_name = "RPM"             -> <<"0","F","A","0">>
      [] pid_name = "SPEED"           -> <<"3","2">>
      [] pid_name = "INTAKE_TEMP"     -> <<"4","0">>
      [] pid_name = "THROTTLE"        -> <<"8","0">>
      [] pid_name = "BATTERY_VOLTAGE" -> <<"3","3","9","0">>

R_PID(pid_name) == <<"4","1">> \o PIDS(pid_name) \o PollData(pid_name) \o <<"\r",">">>

\* a Mode 01 answer that names the PID and carries no data byte
R_SHORT(pid_name) == <<"4","1">> \o PIDS(pid_name) \o <<"\r",">">>

InitReplies     == {None, R_OK, R_ERROR, R_QMARK}
DtcReplies      == {None, R_DTC2, R_DTCBAD}
ClearReplies    == {None, R_ACK44, R_NODATA}
PollReplies(pn) == {None, R_NODATA, R_SHORT(pn), R_PID(pn)}

(***************************************************************************)
(* State                                                                    *)
(***************************************************************************)
VARIABLES
    obd_data,            \* main.py: the shared record
    data_lock,           \* main.py: "free" or the thread holding it
    \* obd2_thread
    obd_pc, pid_index, refresh_requested, clear_requested, dtc_list, value, rd_ret,
    \* BluetoothConnection
    bt, bt_pc, bt_op, bt_result, init_index,
    impl,                \* which obd2/bluetooth.py: "src" or "micropython"
    btm_available,       \* micropython: BTM_AVAILABLE (import btm succeeded)
    dev_index,           \* micropython: position in device_names_to_try
    \* transport: the UART handles opened and not yet deinit()ed, and whether
    \* the BTM link is open
    uart_open, btm_open,
    sc,                  \* the running send_command call and the receive buffer
    px,                  \* one call of a parser function: arguments and result
    \* display_thread
    disp_pc, data_snapshot, show_reconnect_screen, reconnect_btn_visible,
    current_page, dialog_visible, clear_btn_visible, action,
    \* API driver of BluetoothConnection (ConnSpec only)
    calls,
    \* history variables (observation only, never read by the program)
    h

sharedVars == <<obd_data, data_lock>>
obdVars    == <<obd_pc, pid_index, refresh_requested, clear_requested, dtc_list, value, rd_ret>>
btVars     == <<bt, bt_pc, bt_op, bt_result, init_index, impl, btm_available,
                dev_index, uart_open, btm_open, sc, px>>
dispVars   == <<disp_pc, data_snapshot, show_reconnect_screen, reconnect_btn_visible,
                current_page, dialog_visible, clear_btn_visible, action>>
vars       == <<sharedVars, obdVars, btVars, dispVars, calls, h>>

\* main.py 50-64
obd_data_init ==
    [ coolant_temp |-> <<0, 1>>, rpm |-> <<0, 1>>, speed |-> <<0, 1>>,
      battery_voltage |-> <<0, 1>>, intake_temp |-> <<0, 1>>, throttle |-> <<0, 1>>,
      connected |-> FALSE, error |-> "",
      dtc_codes |-> <<>>, dtc_count |-> 0, dtc_read |-> FALSE,
      dtc_refresh |-> FALSE, dtc_clear |-> FALSE ]

\* no parser call under way
px_init == [fn |-> "none", args |-> <<>>, about |-> <<>>, done |-> FALSE,
            result |-> <<>>]

\* history: what an observer of the two threads and of the transport records
h_init ==
    [ cycles        |-> 0,      \* iterations of the obd2_thread loop started
      sent          |-> <<>>,   \* commands written to the transport this cycle
      sets_pending  |-> 0,      \* dtc_refresh sets since the last consumption,
                                \* counted as 0, 1, or 2 for "two or more"
      sets_consumed |-> 0,      \* ... as found by the last consumption
      consec_fails  |-> 0,      \* consecutive failed periodic commands
      connect_calls |-> 0,      \* connect() calls from outside connect()
      conn_depth    |-> 0,      \* recursion depth of the running connect()
      pins_tried    |-> <<>>,   \* PINs tried by the running/last connect() call
      raised        |-> FALSE,  \* the transport raised in the running connect()
      opens         |-> 0,      \* transport handles opened so far
      reopened      |-> FALSE,  \* a link was opened while the previous was open
      snap_torn     |-> FALSE,  \* some copy differed from the record as released
      init_sent     |-> <<>>,   \* commands written by the running init_elm327()
      init_answers  |-> <<>>,   \* ... and how the observer judges each answer
      init_keyword  |-> FALSE,  \* ... and whether one held an error keyword
      rd_noresp     |-> FALSE,  \* the running read_dtcs got no answer to Mode 03
      poll          |-> "none", \* this cycle's periodic answer: "decoded" if it
                                \* was the full answer for the PID, "failed" if
                                \* it was none, an error or not decodable
      clear_ack     |-> "none", \* this cycle's Mode 04 answer: "ack" if it held
                                \* "44", "nack" if not, "none" before the answer
      codes_at_clear |-> <<>>,  \* dtc_codes, dtc_count published at that answer
      switched      |-> FALSE,  \* some connect() has switched the PIN to "0000"
      via           |-> "none", \* the strategy ("btm", "uart") of the last
                                \* connect step that succeeded (two-strategy
                                \* BluetoothConnection)
      link          |-> "none", \* what obd2_thread has seen return True:
                                \* "connected" connect(), "initialized" also
                                \* init_elm327()
      touch         |-> <<>>,   \* the touch of the last display iteration, where
                                \* the display thread is observed on its own
      committed     |-> obd_data_init ] \* record at the last lock release

\* the observer's count of the sets of dtc_refresh
CountSet(n) == IF n < 2 THEN n + 1 ELSE n

(***************************************************************************)
(* config.py                                                                *)
(***************************************************************************)
BT_PIN == "1234"
BT_AUTO_TRY_PINS == TRUE

\* BluetoothConnection.__init__; uart = 0 is None, uart = k is the k-th handle
BluetoothConnection(pin, auto_try_pins) ==
    [ pin |-> pin, auto_try_pins |-> auto_try_pins, uart |-> 0,
      btm_mode |-> FALSE, connected |-> FALSE, connection_attempts |-> 0 ]

\* a reader or writer that does not wait for the lock
LockAvailable_NoLock == TRUE

\* data_lock = _thread.allocate_lock(); "with data_lock" blocks until it is free
LockAvailable == data_lock = "free"

\* a "with data_lock" block that leaves the lock as it is
Release_Never(hh) == /\ data_lock' = data_lock
                     /\ h' = [hh EXCEPT !.committed = obd_data']

\* leaving a "with data_lock" block; the observer notes the record as released
Release(hh) == /\ data_lock' = "free"
               /\ h' = [hh EXCEPT !.committed = obd_data']

(***************************************************************************)
(* BluetoothConnection (src/obd2/bluetooth.py): connect, init_elm327,       *)
(* disconnect, reconnect.  bt_op is the method called from outside, bt_pc   *)
(* the position inside it; the caller waits for bt_pc = "ret".              *)
(***************************************************************************)
\* some handle this object opened has not been closed
TransportOpen == uart_open # {} \/ btm_open

\* tail of connect(): lines 81-83
ConnectFailed(b) == [b EXCEPT !.connected = FALSE, !.connection_attempts = @ + 1]

\* connect() returns r: reconnect() goes on with init_elm327() when r is True
ConnectReturns(r) ==
    IF bt_op = "reconnect" /\ r
    THEN bt_pc' = "init" /\ init_index' = 0 /\ bt_result' = bt_result
    ELSE bt_pc' = "ret" /\ bt_result' = r /\ init_index' = init_index

\* connect(): self.uart = UART(2, ...), which may raise
BtConnectOpen ==
    /\ bt_pc = "open" /\ impl = "src"
    /\ \E raises \in BOOLEAN :
         IF raises
         THEN /\ bt' = ConnectFailed(bt)
              /\ ConnectReturns(FALSE)
              /\ uart_open' = uart_open
              /\ h' = [h EXCEPT !.pins_tried = Append(@, bt.pin), !.raised = TRUE]
         ELSE /\ bt' = [bt EXCEPT !.uart = h.opens + 1]
              /\ uart_open' = uart_open \cup {h.opens + 1}
              /\ bt_pc' = "probe"
              /\ h' = [h EXCEPT !.pins_tried = Append(@, bt.pin), !.opens = @ + 1,
                                !.reopened = @ \/ TransportOpen]
              /\ UNCHANGED <<bt_result, init_index>>
    /\ UNCHANGED <<sharedVars, obdVars, dispVars, bt_op, calls, impl, sc, px,
                   btm_available, dev_index, btm_open>>

\* an alternate-PIN test that does not look at the PIN in use
RetryWithAlternatePin_AnyPin(b) == b.auto_try_pins

\* the alternate-PIN test of connect(): line 72
RetryWithAlternatePin(b) == b.auto_try_pins /\ b.pin # "0000"

\* connect(): write 'AT', read the answer; OK or prompt, nothing, or an exception
BtConnectProbe ==
    /\ bt_pc = "probe"
    /\ \E outcome \in {"ok", "silent", "raise"} :
         CASE outcome = "ok" ->
                /\ bt' = [bt EXCEPT !.connected = TRUE, !.connection_attempts = 0]
                /\ ConnectReturns(TRUE)
                /\ h' = h
           [] outcome = "silent" ->
                IF RetryWithAlternatePin(bt)
                THEN \* return self.connect() with the new PIN
                     /\ bt' = [bt EXCEPT !.pin = "0000"]
                     /\ bt_pc' = "open"
                     /\ h' = [h EXCEPT !.conn_depth = @ + 1, !.switched = TRUE]
                     /\ UNCHANGED <<bt_result, init_index>>
                ELSE /\ bt' = ConnectFailed(bt)
                     /\ ConnectReturns(FALSE)
                     /\ h' = h
           [] outcome = "raise" ->
                /\ bt' = ConnectFailed(bt)
                /\ ConnectReturns(FALSE)
                /\ h' = [h EXCEPT !.raised = TRUE]
    /\ UNCHANGED <<sharedVars, obdVars, dispVars, bt_op, uart_open, calls, impl, sc, px,
                   btm_available, dev_index, btm_open>>

\* send_command writes the command only when connected with a transport:
\* src 139-140; micropython 353-354, 358, 384
CanSend ==
    IF impl = "src" THEN bt.connected /\ bt.uart # 0
    ELSE bt.connected /\ ((bt.btm_mode /\ btm_available) \/ bt.uart # 0)

\* send_command: None when it cannot send, else what the adapter answers
send_command(reply) == IF ~CanSend THEN None ELSE reply

\* the observer's list of the commands written to the transport
Sent(hh, command) ==
    IF ~CanSend THEN hh ELSE [hh EXCEPT !.sent = Append(@, command)]

\* the entry check of init_elm327: src 93; micropython 424
CannotInitialize == IF impl = "src" THEN ~bt.connected \/ bt.uart = 0 ELSE ~bt.connected

init_commands ==
    << <<"A","T","Z">>, <<"A","T","E","0">>, <<"A","T","L","0">>, <<"A","T","S","0">>,
       <<"A","T","S","P","0">>, <<"A","T","A","T","1">>, <<"0","1","0","0">> >>

\* an error test that lets every answer pass
InitError_Never(response) == FALSE

\* the error test of init_elm327(): line 114
InitError(response) ==
    \/ Contains(response, <<"E","R","R","O","R">>)
    \/ Contains(response, <<"U","N","A","B","L","E">>)

\* the observer's judgement of an answer: some text, and neither ERROR nor
\* UNABLE in it
GoodAnswer(response) ==
    /\ response # None /\ Len(response) > 0
    /\ \A i \in 1..Len(response) :
          /\ Slice(response, i - 1, i + 4) # <<"E","R","R","O","R">>
          /\ Slice(response, i - 1, i + 5) # <<"U","N","A","B","L","E">>

\* the observer's record of one command of init_elm327() and its answer
InitObserved(hh, response) ==
    IF ~CanSend THEN hh
    ELSE [hh EXCEPT
            !.init_sent    = Append(@, init_commands[init_index + 1]),
            !.init_answers = Append(@, IF GoodAnswer(response) THEN "good" ELSE "bad"),
            !.init_keyword = @ \/ (response # None /\
                                     \E keyword \in error_keywords :
                                         Contains(response, keyword))]

\* the observer starts afresh when the caller has taken the result
InitForgotten(hh) ==
    [hh EXCEPT !.init_sent = <<>>, !.init_answers = <<>>, !.init_keyword = FALSE]

\* init_elm327(): the entry check and one iteration of the command loop
BtInitStep ==
    /\ bt_pc = "init"
    /\ IF CannotInitialize
       THEN /\ bt_pc' = "ret" /\ bt_result' = FALSE
            /\ UNCHANGED <<init_index, h>>
       ELSE \E reply \in InitReplies :
              LET response == send_command(reply) IN
              /\ h' = InitObserved(h, response)
              /\ IF Truthy(response) /\ ~InitError(response)
                 THEN IF init_index + 1 = Len(init_commands)
                      THEN bt_pc' = "ret" /\ bt_result' = TRUE /\ init_index' = init_index
                      ELSE bt_pc' = "init" /\ init_index' = init_index + 1
                           /\ bt_result' = bt_result
                 ELSE bt_pc' = "ret" /\ bt_result' = FALSE /\ init_index' = init_index
    /\ UNCHANGED <<sharedVars, obdVars, dispVars, bt, bt_op, uart_open, calls, impl, sc, px,
                   btm_available, dev_index, btm_open>>

\* disconnect(): deinit the UART (which may raise), then connected = False
BtDisconnect ==
    /\ bt_pc = "disconnect" /\ impl = "src"
    /\ \E raises \in BOOLEAN :
         IF raises /\ bt.uart # 0
         THEN UNCHANGED <<bt, uart_open>>
         ELSE /\ uart_open' = uart_open \ {bt.uart}
              /\ bt' = [bt EXCEPT !.connected = FALSE]
    /\ IF bt_op = "reconnect"
       THEN /\ bt_pc' = "open"
            /\ h' = [h EXCEPT !.connect_calls = @ + 1, !.conn_depth = 0,
                              !.pins_tried = <<>>, !.raised = FALSE]
            /\ UNCHANGED bt_result
       ELSE /\ bt_pc' = "ret" /\ bt_result' = TRUE /\ h' = h
    /\ UNCHANGED <<sharedVars, obdVars, dispVars, bt_op, init_index, calls, impl, sc, px,
                   btm_available, dev_index, btm_open>>

(***************************************************************************)
(* BluetoothConnection (micropython/obd2/bluetooth.py): two strategies,     *)
(* BTM (managed pairing) first when available, then the raw UART            *)
(***************************************************************************)
MpUnchanged == UNCHANGED <<sharedVars, obdVars, dispVars, bt_op, calls, impl, sc, px,
                           btm_available>>

\* connect(), lines 298-305
MpConnectEnter ==
    /\ bt_pc = "open" /\ impl = "micropython"
    /\ bt_pc' = IF btm_available THEN "btm" ELSE "mp_uart"
    /\ dev_index' = 0
    /\ h' = [h EXCEPT !.pins_tried = Append(@, bt.pin)]
    /\ UNCHANGED <<bt, bt_result, init_index, uart_open, btm_open>>
    /\ MpUnchanged

\* after one device name of _connect_btm failed: the next one, or the UART
MpNextDevice ==
    IF dev_index + 1 < MaxDeviceNames
    THEN bt_pc' = "btm" /\ dev_index' = dev_index + 1
    ELSE bt_pc' = "mp_uart" /\ dev_index' = dev_index

\* _connect_btm, lines 105-212: one device name.  An open link that reports
\* ready is closed first; btm.open raises, fails, or succeeds and then gets
\* ready or times out (then btm.close, whose exception is swallowed)
MpConnectBtm ==
    /\ bt_pc = "btm"
    /\ \E outcome \in {"init_raises", "open_raises", "open_false", "ready",
                       "timeout", "timeout_close_raises"},
          was_ready \in {FALSE, btm_open} :
         LET closed_first == IF was_ready THEN FALSE ELSE btm_open
             still_open   == closed_first \/ uart_open # {}
         IN
         CASE outcome = "init_raises" ->
                /\ dev_index = 0
                /\ bt_pc' = "mp_uart"
                /\ UNCHANGED <<bt, bt_result, init_index, dev_index, btm_open, h>>
           [] outcome \in {"open_raises", "open_false"} ->
                /\ MpNextDevice
                /\ btm_open' = closed_first
                /\ UNCHANGED <<bt, bt_result, init_index, h>>
           [] outcome = "ready" ->
                /\ bt' = [bt EXCEPT !.btm_mode = TRUE, !.connected = TRUE]
                /\ btm_open' = TRUE
                /\ ConnectReturns(TRUE)
                /\ h' = [h EXCEPT !.opens = @ + 1,
                                  !.reopened = @ \/ still_open,
                                  !.via = "btm"]
                /\ UNCHANGED dev_index
           [] outcome = "timeout" ->
                /\ MpNextDevice
                /\ btm_open' = FALSE
                /\ h' = [h EXCEPT !.opens = @ + 1,
                                  !.reopened = @ \/ still_open]
                /\ UNCHANGED <<bt, bt_result, init_index>>
           [] outcome = "timeout_close_raises" ->
                /\ MpNextDevice
                /\ btm_open' = TRUE
                /\ h' = [h EXCEPT !.opens = @ + 1,
                                  !.reopened = @ \/ still_open]
                /\ UNCHANGED <<bt, bt_result, init_index>>
    /\ UNCHANGED uart_open
    /\ MpUnchanged

\* _connect_uart, lines 222-286, and what connect() does with its result,
\* lines 308-339: return True; or switch to PIN 0000, close, and try again;
\* or give up.  uart.deinit() and btm.close() of lines 315-319 are called
\* outside any handler: if one raises, the exception leaves connect() (and
\* reconnect()) and reaches the caller
MpConnectUart ==
    /\ bt_pc = "mp_uart"
    /\ \E outcome \in {"raise_open", "ok", "silent", "raise"} :
         LET opened   == outcome # "raise_open"
             reopen   == opened /\ TransportOpen
             uart     == IF opened THEN h.opens + 1 ELSE bt.uart
             now_open == IF opened THEN uart_open \cup {uart} ELSE uart_open
             hh       == [h EXCEPT !.opens = IF opened THEN @ + 1 ELSE @,
                                   !.reopened = @ \/ reopen,
                                   !.raised = @ \/ outcome \in {"raise_open", "raise"}]
         IN  IF outcome = "ok"
             THEN /\ bt' = [bt EXCEPT !.uart = uart, !.connected = TRUE]
                  /\ uart_open' = now_open
                  /\ btm_open' = btm_open
                  /\ ConnectReturns(TRUE)
                  /\ h' = [hh EXCEPT !.via = "uart"]
             ELSE IF RetryWithAlternatePin(bt)
             THEN \E close \in {"ok", "deinit_raises", "btm_close_raises"} :
                  LET in_btm == bt.btm_mode /\ btm_available IN
                  /\ close = "deinit_raises" => uart # 0
                  /\ close = "btm_close_raises" => in_btm
                  /\ bt' = CASE close = "ok" ->
                                 [bt EXCEPT !.pin = "0000", !.uart = 0, !.btm_mode = FALSE]
                             [] close = "deinit_raises" ->
                                 [bt EXCEPT !.pin = "0000", !.uart = uart]
                             [] close = "btm_close_raises" ->
                                 [bt EXCEPT !.pin = "0000", !.uart = 0]
                  /\ uart_open' = IF close = "deinit_raises" THEN now_open
                                  ELSE now_open \ {uart}
                  /\ btm_open' = IF close = "ok" /\ in_btm THEN FALSE ELSE btm_open
                  /\ bt_pc' = IF close = "ok" THEN "open" ELSE "raised"
                  /\ h' = IF close = "ok"
                          THEN [hh EXCEPT !.conn_depth = @ + 1, !.switched = TRUE]
                          ELSE [hh EXCEPT !.switched = TRUE]
                  /\ UNCHANGED <<bt_result, init_index>>
             ELSE /\ bt' = ConnectFailed([bt EXCEPT !.uart = uart])
                  /\ uart_open' = now_open
                  /\ btm_open' = btm_open
                  /\ ConnectReturns(FALSE)
                  /\ h' = hh
    /\ UNCHANGED dev_index
    /\ MpUnchanged

\* disconnect(), lines 479-490: btm.close and uart.deinit may raise; the
\* handler only prints, so what follows the raising call is skipped
MpDisconnect ==
    /\ bt_pc = "disconnect" /\ impl = "micropython"
    /\ \E raises \in {"none", "btm_close", "deinit"} :
         LET in_btm == bt.btm_mode /\ btm_available IN
         /\ raises = "btm_close" => in_btm
         /\ raises = "deinit" => bt.uart # 0
         /\ btm_open' = IF in_btm /\ raises # "btm_close" THEN FALSE ELSE btm_open
         /\ uart_open' = IF raises = "none" THEN uart_open \ {bt.uart} ELSE uart_open
         /\ bt' = IF raises = "none"
                  THEN [bt EXCEPT !.connected = FALSE, !.btm_mode = FALSE]
                  ELSE bt
    /\ IF bt_op = "reconnect"
       THEN /\ bt_pc' = "open"
            /\ h' = [h EXCEPT !.connect_calls = @ + 1, !.conn_depth = 0,
                              !.pins_tried = <<>>, !.raised = FALSE]
            /\ UNCHANGED bt_result
       ELSE /\ bt_pc' = "ret" /\ bt_result' = TRUE /\ h' = h
    /\ UNCHANGED <<init_index, dev_index>>
    /\ MpUnchanged

(***************************************************************************)
(* send_command, step by step (src 128-172; micropython 342-414): the       *)
(* receive buffer rx of the transport, the flush of pending bytes (UART      *)
(* branches only), the write, the wait loop and the return.  Time is in      *)
(* milliseconds since the call was entered.                                 *)
(***************************************************************************)
\* time.sleep_ms(10) of the wait loop
SleepMs == 10

\* the timeout argument, as a whole number of polling intervals
Timeouts == {k * SleepMs : k \in 1..MaxPolls}

\* a byte that is no valid UTF-8: decode(.., 'ignore') drops it
InvalidByte == "#"

\* what the adapter may deliver in one burst
Bursts == { <<"O","K">>, <<"\r",">">>, <<InvalidByte,"4","1">>, <<"\r","\n">> }

\* what may lie in the receive buffer when send_command is called: nothing,
\* or the late answer to an earlier command
PendingTexts == { <<>>, <<"?","\r",">">> }

sc_init(pending) ==
    [ pc            |-> "idle",
      timeout       |-> 0,
      now           |-> 0,        \* time since the call was entered
      start         |-> 0,        \* start = time.ticks_ms()
      rx            |-> pending,  \* bytes received and not yet read
      stale         |-> 0,        \* how many of them were there before the write
      response_data |-> <<>>,
      result        |-> None,
      \* observation only
      bursts        |-> 0,        \* bursts delivered during the call
      got_stale     |-> FALSE,    \* response_data took bytes older than the write
      ended_by      |-> "none",   \* "prompt", "timeout", "exception", "guard"
      read_late     |-> FALSE ]   \* a read after the prompt or after the timeout

\* which branch of send_command runs: the managed BTM link or the raw UART
BtmBranch == impl = "micropython" /\ bt.btm_mode /\ btm_available

\* response_data.decode('utf-8', 'ignore')
Decode(bytes) == RemoveChars(bytes, {InvalidByte})

\* a prompt test that never finds the prompt
PromptSeen_Never(data) == FALSE

\* b'>' in response_data
PromptSeen(data) == Contains(data, <<">">>)

\* lines 166-172: the text if any byte was read, else None
ReturnValue(data) == IF data # <<>> THEN Strip(Decode(data)) ELSE None

ScOnly == UNCHANGED <<sharedVars, obdVars, dispVars, bt, bt_pc, bt_op, bt_result,
                      init_index, impl, btm_available, dev_index, uart_open,
                      btm_open, px, calls, h>>

\* the except clause: whatever the transport raises, send_command returns None
ScRaised == sc' = [sc EXCEPT !.pc = "done", !.result = None, !.ended_by = "exception"]

\* entry: the guard of lines 139-140 (353-354), then the branch
ScEnter ==
    /\ sc.pc = "idle"
    /\ \E timeout \in Timeouts :
         IF ~CanSend
         THEN sc' = [sc EXCEPT !.pc = "done", !.result = None, !.ended_by = "guard",
                               !.timeout = timeout]
         ELSE sc' = [sc EXCEPT !.pc = IF BtmBranch THEN "write" ELSE "flush",
                               !.timeout = timeout]
    /\ ScOnly

\* UART: while self.uart.any(): self.uart.read().  A read empties the buffer;
\* the bytes it took had been arriving for up to one polling interval.  When
\* any() finds nothing the loop ends and the command is written.
ScFlush ==
    /\ sc.pc = "flush"
    /\ \/ ScRaised
       \/ /\ sc.rx # <<>>
          /\ \E took \in {0, SleepMs} :
               sc' = [sc EXCEPT !.rx = <<>>, !.now = @ + took]
       \/ /\ sc.rx = <<>>
          /\ sc' = [sc EXCEPT !.pc = "wait", !.start = sc.now, !.stale = 0]
    /\ ScOnly

\* BTM: btm.send_bin(cmd_bytes) with whatever is pending left in the buffer
ScWrite ==
    /\ sc.pc = "write"
    /\ \/ ScRaised
       \/ sc' = [sc EXCEPT !.pc = "wait", !.start = sc.now, !.stale = Len(sc.rx)]
    /\ ScOnly

\* one pass of the wait loop: the timeout test, the read of what is there,
\* the prompt test, the sleep
ScWait ==
    /\ sc.pc = "wait"
    /\ IF sc.now - sc.start < sc.timeout
       THEN \/ ScRaised
            \/ /\ sc.rx # <<>>
               /\ LET data == sc.response_data \o sc.rx
                      seen == PromptSeen(data)
                  IN  sc' = [sc EXCEPT
                               !.response_data = data,
                               !.rx        = <<>>,
                               !.stale     = 0,
                               !.got_stale = @ \/ sc.stale > 0,
                               !.read_late = \/ @
                                             \/ Contains(sc.response_data, <<">">>)
                                             \/ sc.now - sc.start >= sc.timeout,
                               !.pc        = IF seen THEN "return" ELSE "wait",
                               !.ended_by  = IF seen THEN "prompt" ELSE @,
                               !.now       = IF seen THEN @ ELSE @ + SleepMs]
            \/ /\ sc.rx = <<>>
               /\ sc' = [sc EXCEPT !.now = @ + SleepMs]
       ELSE sc' = [sc EXCEPT !.pc = "return", !.ended_by = "timeout"]
    /\ ScOnly

\* lines 166-167, 172
ScReturn ==
    /\ sc.pc = "return"
    /\ sc' = [sc EXCEPT !.pc = "done", !.result = ReturnValue(sc.response_data)]
    /\ ScOnly

\* the adapter delivers a burst of bytes while the call runs
AdapterSends ==
    /\ sc.pc \in {"flush", "write", "wait"}
    /\ sc.bursts < MaxBursts
    /\ \E burst \in Bursts :
         sc' = [sc EXCEPT !.rx = @ \o burst, !.bursts = @ + 1]
    /\ ScOnly

(***************************************************************************)
(* A caller of one BluetoothConnection: connect(), init_elm327(),           *)
(* disconnect() and reconnect() in any order                                *)
(***************************************************************************)
ApiCall ==
    /\ obd_pc = "none" /\ bt_pc = "idle"
    /\ calls < MaxCalls
    /\ calls' = calls + 1
    /\ \E op \in {"connect", "init_elm327", "disconnect", "reconnect"} :
         /\ bt_op' = op
         /\ bt_pc' = CASE op = "connect"     -> "open"
                      [] op = "init_elm327" -> "init"
                      [] OTHER              -> "disconnect"
         /\ init_index' = IF op = "init_elm327" THEN 0 ELSE init_index
         /\ h' = IF op = "connect"
                 THEN [h EXCEPT !.connect_calls = @ + 1, !.conn_depth = 0,
                                !.pins_tried = <<>>, !.raised = FALSE]
                 ELSE h
    /\ UNCHANGED <<sharedVars, obdVars, dispVars, bt, bt_result, impl, sc, px,
                   btm_available, dev_index, uart_open, btm_open>>

ApiReturn ==
    /\ obd_pc = "none" /\ bt_pc \in {"ret", "raised"}
    /\ bt_pc' = "idle" /\ bt_op' = "none"
    /\ h' = InitForgotten(h)
    /\ UNCHANGED <<sharedVars, obdVars, dispVars, bt, bt_result, init_index, impl, sc, px,
                   btm_available, dev_index, uart_open, btm_open, calls>>

(***************************************************************************)
(* main.py: obd2_thread                                                     *)
(***************************************************************************)
ObdOnly == UNCHANGED <<btVars, dispVars, calls>>

\* line 141: bt_connection.connect()
ObdCallConnect ==
    /\ obd_pc = "start" /\ bt_pc = "idle"
    /\ obd_pc' = "in_connect"
    /\ bt_op' = "connect" /\ bt_pc' = "open"
    /\ h' = [h EXCEPT !.connect_calls = @ + 1, !.conn_depth = 0,
                      !.pins_tried = <<>>, !.raised = FALSE]
    /\ UNCHANGED <<sharedVars, pid_index, refresh_requested, clear_requested,
                   dtc_list, value, rd_ret, bt, bt_result, init_index, uart_open,
                   impl, sc, px, btm_available, dev_index, btm_open, dispVars, calls>>

\* lines 141, 148: connect() returned; on True call init_elm327()
ObdConnectReturned ==
    /\ obd_pc = "in_connect" /\ bt_pc = "ret"
    /\ IF bt_result
       THEN obd_pc' = "in_init" /\ bt_op' = "init_elm327" /\ bt_pc' = "init"
            /\ init_index' = 0
       ELSE obd_pc' = "connfail_lock" /\ bt_op' = "none" /\ bt_pc' = "idle"
            /\ init_index' = init_index
    /\ h' = [h EXCEPT !.conn_depth = 0, !.pins_tried = <<>>, !.raised = FALSE,
                      !.link = IF bt_result THEN "connected" ELSE @]
    /\ UNCHANGED <<sharedVars, pid_index, refresh_requested, clear_requested,
                   dtc_list, value, rd_ret, bt, bt_result, uart_open,
                   impl, sc, px, btm_available, dev_index, btm_open, dispVars, calls>>

\* lines 148, 154: init_elm327() returned
ObdInitReturned ==
    /\ obd_pc = "in_init" /\ bt_pc = "ret"
    /\ obd_pc' = IF bt_result THEN "connected_lock" ELSE "initfail_lock"
    /\ bt_op' = "none" /\ bt_pc' = "idle"
    /\ h' = [InitForgotten(h) EXCEPT
                !.link = IF bt_result /\ @ = "connected" THEN "initialized" ELSE @]
    /\ UNCHANGED <<sharedVars, pid_index, refresh_requested, clear_requested,
                   dtc_list, value, rd_ret, bt, bt_result, init_index, uart_open,
                   impl, sc, px, btm_available, dev_index, btm_open, dispVars, calls>>

\* a first assignment made without taking the lock
ObdAcquireWrite_NoLock(at, next, rec) ==
    /\ obd_pc = at
    /\ obd_data' = rec
    /\ obd_pc' = next
    /\ UNCHANGED <<data_lock, pid_index, refresh_requested, clear_requested,
                   dtc_list, value, rd_ret, h>>
    /\ ObdOnly

\* "with data_lock:" and the first assignment of the block: the thread waits
\* for the lock, takes it and writes
ObdAcquireWrite(at, next, rec) ==
    /\ obd_pc = at
    /\ LockAvailable
    /\ data_lock' = "obd2"
    /\ obd_data' = rec
    /\ obd_pc' = next
    /\ UNCHANGED <<pid_index, refresh_requested, clear_requested,
                   dtc_list, value, rd_ret, h>>
    /\ ObdOnly

\* an assignment that writes the record back with the request flags cleared
ObdWrite_ClearsFlags(at, next, rec) ==
    /\ obd_pc = at
    /\ obd_data' = [rec EXCEPT !.dtc_refresh = FALSE, !.dtc_clear = FALSE]
    /\ obd_pc' = next
    /\ UNCHANGED <<data_lock, pid_index, refresh_requested, clear_requested,
                   dtc_list, value, rd_ret, h>>
    /\ ObdOnly

\* one assignment to the record inside a "with data_lock" block
ObdWrite(at, next, rec) ==
    /\ obd_pc = at
    /\ obd_data' = rec
    /\ obd_pc' = next
    /\ UNCHANGED <<data_lock, pid_index, refresh_requested, clear_requested,
                   dtc_list, value, rd_ret, h>>
    /\ ObdOnly

\* the last assignment of a "with data_lock" block and the release
ObdWriteRelease(at, next, rec) ==
    /\ obd_pc = at
    /\ obd_data' = rec
    /\ obd_pc' = next
    /\ Release(h)
    /\ UNCHANGED <<pid_index, refresh_requested, clear_requested,
                   dtc_list, value, rd_ret>>
    /\ ObdOnly

\* a failure publish that shows the link as connected
ConnectFailedRecord_Connected(rec) ==
    [rec EXCEPT !.connected = TRUE, !.error = "Bluetooth connection failed"]

\* lines 142-145: connect failed, publish and return
ConnectFailedRecord(rec) == [rec EXCEPT !.error = "Bluetooth connection failed"]

ObdConnFailW1    == ObdAcquireWrite("connfail_lock", "connfail_w2",
                                    [obd_data EXCEPT !.connected = FALSE])
ObdConnFailW2    == ObdWriteRelease("connfail_w2", "exit_connect_failed",
                                    ConnectFailedRecord(obd_data))

\* an init failure published without its reason
InitFailedRecord_NoReason(rec) == [rec EXCEPT !.error = ""]

\* lines 149-152: init failed, publish and return
InitFailedRecord(rec) == [rec EXCEPT !.error = "ELM327 init failed"]

ObdInitFailW1    == ObdAcquireWrite("initfail_lock", "initfail_w2",
                                    [obd_data EXCEPT !.connected = FALSE])
ObdInitFailW2    == ObdWriteRelease("initfail_w2", "exit_init_failed",
                                    InitFailedRecord(obd_data))

\* lines 154-160: publish connected, sleep, then the initial read_dtcs
ObdConnectedW1   == ObdAcquireWrite("connected_lock", "connected_w2",
                                    [obd_data EXCEPT !.connected = TRUE])
ObdConnectedW2 ==
    /\ obd_pc = "connected_w2"
    /\ obd_data' = [obd_data EXCEPT !.error = ""]
    /\ obd_pc' = "rd_send" /\ rd_ret' = "initial"
    /\ Release(h)
    /\ UNCHANGED <<pid_index, refresh_requested, clear_requested, dtc_list, value>>
    /\ ObdOnly

\* read_dtcs, lines 82-86: send Mode 03 and parse; parse_dtc_response may raise.
\* An exception escapes obd2_thread when raised by the initial read (line 160)
\* and is caught by the loop's handler otherwise.
CMD_03 == <<"0","3">>
CMD_04 == <<"0","4">>

ObdReadDtcsSend ==
    /\ obd_pc = "rd_send"
    /\ \E reply \in DtcReplies :
         LET response == send_command(reply)
             parsed   == parse_dtc_response(response)
         IN  /\ IF Truthy(response) /\ parsed.raised
                THEN /\ obd_pc' = IF rd_ret = "initial" THEN "crashed" ELSE "exc_lock"
                     /\ dtc_list' = dtc_list
                ELSE /\ obd_pc' = "rd_lock"
                     /\ dtc_list' = IF Truthy(response) THEN parsed.dtcs ELSE <<>>
             /\ h' = [Sent(h, CMD_03) EXCEPT !.rd_noresp = (response = None)]
    /\ UNCHANGED <<sharedVars, pid_index, refresh_requested, clear_requested,
                   value, rd_ret>>
    /\ ObdOnly

\* read_dtcs, lines 88-91 / 96-99: the three assignments under the lock
ObdReadDtcsW1   == ObdAcquireWrite("rd_lock", "rd_w2",
                                   [obd_data EXCEPT !.dtc_codes = dtc_list])
ObdReadDtcsW2   == ObdWrite("rd_w2", "rd_w3",
                            [obd_data EXCEPT !.dtc_count = Len(dtc_list)])
ObdReadDtcsW3 ==
    /\ obd_pc = "rd_w3"
    /\ obd_data' = [obd_data EXCEPT !.dtc_read = TRUE]
    /\ obd_pc' = IF rd_ret = "initial" THEN "loop_top" ELSE "query"
    /\ rd_ret' = "none"
    /\ dtc_list' = <<>>
    /\ Release([h EXCEPT !.rd_noresp = FALSE])
    /\ UNCHANGED <<pid_index, refresh_requested, clear_requested, value>>
    /\ ObdOnly

\* lines 221-225: the loop's exception handler, then the next iteration
ObdExceptWrite ==
    /\ obd_pc = "exc_lock"
    /\ LockAvailable
    /\ obd_data' = [obd_data EXCEPT !.error = "ValueError"]
    /\ obd_pc' = "loop_top"
    /\ rd_ret' = "none"
    /\ Release(h)
    /\ UNCHANGED <<pid_index, refresh_requested, clear_requested, dtc_list, value>>
    /\ ObdOnly

\* a consumption that leaves the refresh flag set
ConsumeFlags_KeepRefresh(rec) == [rec EXCEPT !.dtc_clear = FALSE]

\* lines 173-179: the flags are read and cleared
ConsumeFlags(rec) == [rec EXCEPT !.dtc_refresh = FALSE, !.dtc_clear = FALSE]

\* the two tests of lines 182-185 in the other order
DtcOperation_RefreshFirst(clear, refresh) ==
    IF refresh THEN "rd_send" ELSE IF clear THEN "cl_send" ELSE "query"

\* lines 182-185: which operation the cycle starts with
DtcOperation(clear, refresh) ==
    IF clear THEN "cl_send" ELSE IF refresh THEN "rd_send" ELSE "query"

\* lines 166-185: top of the while-True loop; the flag block is one step that
\* needs the lock free; then the choice of the operation
ObdConsume ==
    /\ obd_pc = "loop_top"
    /\ h.cycles < MaxCycles
    /\ LockAvailable
    /\ refresh_requested' = obd_data.dtc_refresh
    /\ clear_requested' = obd_data.dtc_clear
    /\ obd_data' = ConsumeFlags(obd_data)
    /\ obd_pc' = DtcOperation(clear_requested', refresh_requested')
    /\ rd_ret' = IF obd_pc' = "rd_send" THEN "refresh" ELSE "none"
    /\ Release([h EXCEPT !.cycles = @ + 1, !.sent = <<>>,
                         !.sets_consumed = h.sets_pending, !.sets_pending = 0,
                         !.clear_ack = "none", !.codes_at_clear = <<>>,
                         !.poll = "none"])
    /\ UNCHANGED <<pid_index, dtc_list, value>>
    /\ ObdOnly

\* a clear taken as acknowledged by any answer at all
ClearAcknowledged_AnyResponse(response) == Truthy(response)

\* clear_dtcs, lines 114-123: Mode 04; on "44" re-read the codes
ClearAcknowledged(response) == Truthy(response) /\ Contains(response, <<"4","4">>)

\* the observer's reading of the answer to Mode 04, from the bytes alone
AckSeen(response) ==
    IF response # None /\ \E i \in 1..(Len(response) - 1) :
                             response[i] = "4" /\ response[i + 1] = "4"
    THEN "ack" ELSE "nack"

ObdClearDtcs ==
    /\ obd_pc = "cl_send"
    /\ \E reply \in ClearReplies :
         LET response == send_command(reply) IN
         /\ IF ClearAcknowledged(response)
            THEN obd_pc' = "rd_send" /\ rd_ret' = "clear"
            ELSE obd_pc' = "query" /\ rd_ret' = "none"
         /\ h' = [Sent(h, CMD_04) EXCEPT
                    !.clear_ack = AckSeen(response),
                    !.codes_at_clear = <<obd_data.dtc_codes, obd_data.dtc_count>>]
    /\ UNCHANGED <<sharedVars, pid_index, refresh_requested, clear_requested,
                   dtc_list, value>>
    /\ ObdOnly

\* a publish that writes a second metric as well
PublishMetric_TwoFields(rec, pid_name, v) ==
    [rec EXCEPT !.coolant_temp = v, !.rpm = IntOf(v)]

\* lines 203-214: the one field written for the polled PID
PublishMetric(rec, pid_name, v) ==
    CASE pid_name = "COOLANT_TEMP"    -> [rec EXCEPT !.coolant_temp = v]
      [] pid_name = "RPM"             -> [rec EXCEPT !.rpm = IntOf(v)]
      [] pid_name = "SPEED"           -> [rec EXCEPT !.speed = IntOf(v)]
      [] pid_name = "INTAKE_TEMP"     -> [rec EXCEPT !.intake_temp = v]
      [] pid_name = "THROTTLE"        -> [rec EXCEPT !.throttle = v]
      [] pid_name = "BATTERY_VOLTAGE" -> [rec EXCEPT !.battery_voltage = v]

NextPid(i) == (i + 1) % Len(get_supported_pids)

\* lines 188-198, 217-219: the periodic query of this cycle
ObdQuery ==
    /\ obd_pc = "query"
    /\ LET pid_name == get_supported_pids[pid_index + 1]
           command  == get_pid_command(pid_name)
       IN  \E reply \in PollReplies(pid_name) :
             LET response == send_command(reply)
                 ok       == Truthy(response) /\ is_valid_response(response)
                 v        == IF ok
                             THEN parse_response(response,
                                                 Slice(command, Len(command) - 2, Len(command)))
                             ELSE NoValue
             IN  /\ value' = v
                 /\ IF v # NoValue
                    THEN obd_pc' = "pub_lock" /\ pid_index' = pid_index
                    ELSE obd_pc' = "loop_top" /\ pid_index' = NextPid(pid_index)
                 /\ h' = [Sent(h, command) EXCEPT
                            !.consec_fails = IF v # NoValue THEN 0 ELSE @ + 1,
                            !.poll = IF response = R_PID(pid_name)
                                     THEN "decoded" ELSE "failed"]
    /\ UNCHANGED <<sharedVars, refresh_requested, clear_requested, dtc_list, rd_ret>>
    /\ ObdOnly

\* lines 202-214, 217-219: publish the value, advance the rotation, sleep
ObdPublishWrite ==
    /\ obd_pc = "pub_lock"
    /\ LockAvailable
    /\ obd_data' = PublishMetric(obd_data, get_supported_pids[pid_index + 1], value)
    /\ value' = NoValue
    /\ pid_index' = NextPid(pid_index)
    /\ obd_pc' = "loop_top"
    /\ Release(h)
    /\ UNCHANGED <<refresh_requested, clear_requested, dtc_list, rd_ret>>
    /\ ObdOnly

ObdNext ==
    \/ ObdCallConnect \/ ObdConnectReturned \/ ObdInitReturned
    \/ ObdConnFailW1 \/ ObdConnFailW2
    \/ ObdInitFailW1 \/ ObdInitFailW2
    \/ ObdConnectedW1 \/ ObdConnectedW2
    \/ ObdReadDtcsSend \/ ObdReadDtcsW1 \/ ObdReadDtcsW2 \/ ObdReadDtcsW3
    \/ ObdExceptWrite
    \/ ObdConsume \/ ObdClearDtcs
    \/ ObdQuery \/ ObdPublishWrite

(***************************************************************************)
(* display: buttons (button.py), dialog (dialog.py), pages (pages.py)       *)
(***************************************************************************)
Button(x, y, width, height) == [x |-> x, y |-> y, width |-> width, height |-> height]

reconnect_btn == Button(140, 180, 200, 60)     \* main.py 255-260
refresh_btn   == Button(20, 220, 140, 40)      \* pages.py 107-112
clear_btn     == Button(180, 220, 140, 40)     \* pages.py 115-120
yes_btn       == Button(80, 175, 140, 50)      \* dialog.py 43-49
no_btn        == Button(240, 175, 140, 50)     \* dialog.py 51-57
nav_buttons   == << Button(10, 275, 150, 45), Button(170, 275, 150, 45),
                    Button(330, 275, 150, 45) >>   \* pages.py 278-310

\* Button.is_touched
is_touched(btn, visible, tp) ==
    /\ visible
    /\ btn.x <= tp[1] /\ tp[1] <= btn.x + btn.width
    /\ btn.y <= tp[2] /\ tp[2] <= btn.y + btn.height

\* touch.get_touch(): no touch (or one inside the 500 ms debounce), or a point
NoTouch == <<>>
TouchPoints ==
    { <<90, 200>>,     \* Yes
      <<300, 200>>,    \* No, Reconnect
      <<90, 240>>,     \* Refresh
      <<250, 240>>,    \* Clear DTCs
      <<200, 290>> }   \* Diagnostics (navigation bar)

\* PageManager.handle_nav_touch: the page switched to, or 0 - 1 if none
NavTarget(page, tp) ==
    IF \E i \in 1..3 : is_touched(nav_buttons[i], TRUE, tp) /\ i - 1 # page
    THEN (CHOOSE i \in 1..3 : is_touched(nav_buttons[i], TRUE, tp) /\ i - 1 # page) - 1
    ELSE 0 - 1

\* ConfirmDialog.handle_touch; the Yes/No buttons are visible with the dialog
DialogTouch(visible, tp) ==
    IF ~visible THEN "none"
    ELSE IF is_touched(yes_btn, visible, tp) THEN "yes"
    ELSE IF is_touched(no_btn, visible, tp) THEN "no"
    ELSE "none"

\* a Diagnostics page whose Clear DTCs button clears at once
DiagnosticsTouch_ClearAtOnce(dialog, clear_visible, tp) ==
    IF is_touched(refresh_btn, TRUE, tp)
    THEN [action |-> "refresh", dialog |-> dialog]
    ELSE IF clear_visible /\ is_touched(clear_btn, clear_visible, tp)
    THEN [action |-> "confirm_clear", dialog |-> dialog]
    ELSE [action |-> "none", dialog |-> dialog]

\* DiagnosticsPage.handle_touch: [action, dialog]
DiagnosticsTouch(dialog, clear_visible, tp) ==
    IF dialog
    THEN LET response == DialogTouch(dialog, tp) IN
         IF response = "yes" THEN [action |-> "confirm_clear", dialog |-> FALSE]
         ELSE IF response = "no" THEN [action |-> "cancel_clear", dialog |-> FALSE]
         ELSE [action |-> "none", dialog |-> dialog]
    ELSE IF is_touched(refresh_btn, TRUE, tp)
         THEN [action |-> "refresh", dialog |-> dialog]
    ELSE IF clear_visible /\ is_touched(clear_btn, clear_visible, tp)
         THEN [action |-> "show_confirm", dialog |-> TRUE]
    ELSE [action |-> "none", dialog |-> dialog]

\* PageManager.handle_page_touch: only the Diagnostics page (index 1) reacts
PageTouch(page, dialog, clear_visible, tp) ==
    IF page = 1 THEN DiagnosticsTouch(dialog, clear_visible, tp)
    ELSE [action |-> "none", dialog |-> dialog]

\* main.py 298-349: what one accepted touch does to the UI state
\* [show, page, dialog, action, redraw]
HandleTouch(show, page, dialog, clear_visible, tp) ==
    IF tp = NoTouch
    THEN [page |-> page, dialog |-> dialog, action |-> "none", redraw |-> FALSE]
    ELSE IF show
    THEN [page |-> page, dialog |-> dialog,
          action |-> IF is_touched(reconnect_btn, TRUE, tp) THEN "reconnect" ELSE "none",
          redraw |-> FALSE]
    ELSE IF NavTarget(page, tp) >= 0
    THEN [page |-> NavTarget(page, tp), dialog |-> dialog, action |-> "none",
          redraw |-> TRUE]
    ELSE LET r == PageTouch(page, dialog, clear_visible, tp) IN
         [page |-> page, dialog |-> r.dialog, action |-> r.action,
          redraw |-> r.action \in {"confirm_clear", "cancel_clear"}]

\* DiagnosticsPage.draw: the Clear button is shown iff there are codes
DrawClearVisible(page, snapshot, clear_visible) ==
    IF page = 1 THEN Len(snapshot.dtc_codes) > 0 ELSE clear_visible

\* the actions of the page that write the shared record
WritingActions == {"reconnect", "refresh", "confirm_clear"}

\* main.py 313-314, 331-332, 337-338
DisplayWrite(rec, act) ==
    CASE act = "reconnect"     -> [rec EXCEPT !.error = "Reconnecting..."]
      [] act = "refresh"       -> [rec EXCEPT !.dtc_refresh = TRUE]
      [] act = "confirm_clear" -> [rec EXCEPT !.dtc_clear = TRUE]

(***************************************************************************)
(* main.py: display_thread                                                  *)
(***************************************************************************)
DispOnly == UNCHANGED <<obdVars, btVars, calls>>

\* lines 351-357: the page is drawn when forced, or when 500 ms have passed
\* (either way); drawing the Diagnostics page shows or hides the Clear button
DispDraw(snapshot, show, page, clear_visible, forced) ==
    IF snapshot.connected /\ ~show
    THEN \E draw \in {forced, TRUE} :
           clear_btn_visible' =
              IF draw THEN DrawClearVisible(page, snapshot, clear_visible)
              ELSE clear_visible
    ELSE clear_btn_visible' = clear_visible

\* lines 268-362, one iteration up to its record write: the copy of the record
\* under data_lock (which needs the lock free), then the reconnect screen and
\* the touch handling, which work on the copy and on the thread's own objects.
\* An iteration whose touch writes nothing ends here, with drawing and sleep.
DispIterationOn(points, observed) ==
    /\ disp_pc = "snapshot"
    /\ LockAvailable
    /\ LET snapshot  == obd_data
           connected == snapshot.connected
           entering  == ~connected /\ ~show_reconnect_screen
           restored  == connected /\ show_reconnect_screen
           show      == IF entering THEN TRUE ELSE IF restored THEN FALSE
                        ELSE show_reconnect_screen
           page0     == IF restored THEN 0 ELSE current_page
       IN  \E tp \in points \cup {NoTouch} :
             LET t == HandleTouch(show, page0, dialog_visible, clear_btn_visible, tp) IN
             /\ show_reconnect_screen' = show
             /\ reconnect_btn_visible' = show
             /\ current_page' = t.page
             /\ dialog_visible' = t.dialog
             /\ h' = [h EXCEPT !.snap_torn = @ \/ snapshot # h.committed,
                               !.touch = IF observed THEN tp ELSE @]
             /\ IF t.action \in WritingActions
                THEN /\ disp_pc' = "write"
                     /\ action' = t.action
                     /\ data_snapshot' = <<snapshot>>
                     /\ clear_btn_visible' = clear_btn_visible
                ELSE /\ disp_pc' = "snapshot"
                     /\ action' = "none"
                     /\ data_snapshot' = <<>>
                     /\ DispDraw(snapshot, show, t.page, clear_btn_visible,
                                 restored \/ t.redraw)
    /\ UNCHANGED sharedVars
    /\ DispOnly

\* the display thread beside the acquisition thread: touches on the buttons
\* of the dialog and of the Diagnostics page and on its navigation button
DispIteration == DispIterationOn(TouchPoints, FALSE)

\* lines 313-314, 331-332, 337-338: the record write of the touch under
\* data_lock, and the rest of the iteration
DispWrite ==
    /\ disp_pc = "write"
    /\ LockAvailable
    /\ obd_data' = DisplayWrite(obd_data, action)
    /\ data_lock' = data_lock
    /\ h' = [h EXCEPT !.committed = obd_data',
                      !.sets_pending = IF action = "refresh" THEN CountSet(@) ELSE @]
    /\ DispDraw(data_snapshot[1], show_reconnect_screen, current_page,
                clear_btn_visible, action = "confirm_clear")
    /\ disp_pc' = "snapshot"
    /\ action' = "none"
    /\ data_snapshot' = <<>>
    /\ UNCHANGED <<show_reconnect_screen, reconnect_btn_visible, current_page,
                   dialog_visible>>
    /\ DispOnly

DispNext == DispIteration \/ DispWrite

(***************************************************************************)
(* The program: main() starts obd2_thread and runs display_thread           *)
(***************************************************************************)
Init ==
    /\ obd_data = obd_data_init
    /\ data_lock = "free"
    /\ obd_pc = "start" /\ pid_index = 0
    /\ refresh_requested = FALSE /\ clear_requested = FALSE
    /\ dtc_list = <<>> /\ value = NoValue /\ rd_ret = "none"
    /\ bt = BluetoothConnection(BT_PIN, BT_AUTO_TRY_PINS)
    /\ bt_pc = "idle" /\ bt_op = "none" /\ bt_result = FALSE /\ init_index = 0
    /\ impl = "src" /\ btm_available = FALSE /\ dev_index = 0
    /\ uart_open = {} /\ btm_open = FALSE
    /\ sc = sc_init(<<>>)
    /\ px = px_init
    /\ disp_pc = "snapshot" /\ data_snapshot = <<>>
    /\ show_reconnect_screen = FALSE /\ reconnect_btn_visible = FALSE
    /\ current_page = 0 /\ dialog_visible = FALSE /\ clear_btn_visible = TRUE
    /\ action = "none"
    /\ calls = 0
    /\ h = h_init

BtNext == BtConnectOpen \/ BtConnectProbe \/ BtInitStep

Next == ObdNext \/ BtNext \/ DispNext

Spec == Init /\ [][Next]_vars

\* both threads keep running: neither is starved by the scheduler
FairSpec == Spec /\ WF_vars(ObdNext \/ BtNext) /\ WF_vars(DispNext)

(***************************************************************************)
(* Properties of the program (Spec, FairSpec)                               *)
(***************************************************************************)
\* the diagnostic-code reads (Mode 03) sent since the last flag consumption
Reads == Cardinality({i \in 1..Len(h.sent) : h.sent[i] = CMD_03})

\* the periodic queries (Mode 01) sent since the last flag consumption
Polls == Cardinality({i \in 1..Len(h.sent) : StartsWith(h.sent[i], <<"0","1">>)})

\* obd2_thread has returned after a failed connect() or init_elm327()
LinkFailed == obd_pc \in {"exit_connect_failed", "exit_init_failed"}

\* obd2_thread is in its polling loop
Polling == obd_pc \in {"loop_top", "query", "pub_lock", "cl_send", "rd_send",
                       "rd_lock", "rd_w2", "rd_w3", "exc_lock"} /\ h.cycles >= 1

\* C1 (snapshot atomicity): every copy the display thread takes equals the
\* record as it stood at a lock release, never a record in the middle of a
\* publish; and in every such record dtc_count is the length of dtc_codes and
\* a non-empty dtc_codes comes with dtc_read, so a copy never pairs the codes
\* of one read_dtcs publish with the count or the flag of another.
C1_SnapshotAtomicity ==
    /\ ~h.snap_torn
    /\ h.committed.dtc_count = Len(h.committed.dtc_codes)
    /\ (h.committed.dtc_codes # <<>> => h.committed.dtc_read)
    /\ (data_snapshot # <<>> =>
          /\ data_snapshot[1].dtc_count = Len(data_snapshot[1].dtc_codes)
          /\ (data_snapshot[1].dtc_codes # <<>> => data_snapshot[1].dtc_read))

\* the display holds a copy with two codes while read_dtcs is between its
\* first and second assignment of a publish that empties the list
C1_Witness ==
    /\ data_snapshot # <<>>
    /\ data_snapshot[1].dtc_count = 2
    /\ obd_pc = "rd_w2"
    /\ obd_data.dtc_codes = <<>> /\ obd_data.dtc_count = 2

\* C2 (intent coalescing): in a cycle whose flag consumption found dtc_clear
\* unset, the loop sends exactly one Mode 03 read if dtc_refresh was set once
\* or several times since the previous consumption, and none if it was not
\* set: one read for all of the sets, not one per set.
C2_IntentCoalescing ==
    (h.cycles >= 1 /\ ~clear_requested) =>
        Reads = (IF h.sets_consumed >= 1 /\ obd_pc # "rd_send" THEN 1 ELSE 0)

\* two sets were consumed together and the cycle has done its one read
C2_Witness ==
    /\ h.sets_consumed = 2 /\ ~clear_requested
    /\ obd_pc = "query" /\ Reads = 1

\* C3 (polling failure threshold): once the consecutive failed periodic
\* commands exceed the threshold, the link is no longer polling.
C3_FailureThreshold == h.consec_fails > PollFailThreshold => ~Polling

\* C4 (explicit reconnect): when the link has failed and the Reconnect button
\* was pressed, a new connect() call eventually follows.
C4_ExplicitReconnect ==
    (LinkFailed /\ obd_data.error = "Reconnecting...") ~> (bt_pc = "open")

\* obd2_thread has seen init_elm327() return False
InitFailed == obd_pc \in {"initfail_lock", "initfail_w2", "exit_init_failed"}

\* a step from there starts no connect() and opens no transport
NoNewAttempt ==
    InitFailed => /\ InitFailed'
                  /\ bt_pc' = "idle"
                  /\ h.connect_calls' = h.connect_calls
                  /\ h.opens' = h.opens

\* C5 (initialization failure is terminal): after init_elm327() returned
\* False obd2_thread starts no connect() and opens no transport any more, and
\* once it has published the failure the record shows connected = False and
\* a non-empty error.
C5_InitFailureTerminal ==
    /\ [](obd_pc = "exit_init_failed" =>
            ~obd_data.connected /\ obd_data.error # "" /\ bt_pc = "idle")
    /\ [][NoNewAttempt]_vars

\* init_elm327() failed, the failure is published and the display has copied it
C5_Witness ==
    /\ obd_pc = "exit_init_failed"
    /\ obd_data.error = "ELM327 init failed"
    /\ show_reconnect_screen

\* C9 (scheduler preemption): in a cycle in which a clear or a refresh is
\* serviced no periodic query is sent.
C9_SchedulerPreemption ==
    (h.cycles >= 1 /\ (clear_requested \/ refresh_requested)) => Polls = 0

\* C10 (clear over refresh): in a cycle whose flag consumption found both
\* dtc_clear and dtc_refresh set, the first command sent is Mode 04: the cycle
\* goes to clear_dtcs and no refresh read is sent ahead of the clear.
C10_ClearOverRefresh ==
    (h.cycles >= 1 /\ clear_requested /\ refresh_requested) =>
        IF h.sent = <<>> THEN obd_pc = "cl_send" ELSE h.sent[1] = CMD_04

\* both flags were consumed together, the clear was sent and acknowledged,
\* and the confirming read follows
C10_Witness ==
    /\ h.cycles >= 1 /\ clear_requested /\ refresh_requested
    /\ h.sent = <<CMD_04>> /\ obd_pc = "rd_send"

\* C11 (clear then confirm): when the answer to Mode 04 contains "44", the
\* next command written to the transport is the Mode 03 read, before any
\* periodic query; when it does not (or there is no answer), the cycle sends
\* no Mode 03 read and the published dtc_codes and dtc_count stay as they
\* were when the answer came.
C11_ClearThenConfirm ==
    /\ (h.clear_ack = "ack" =>
          /\ h.sent[1] = CMD_04
          /\ IF Len(h.sent) = 1 THEN obd_pc = "rd_send" ELSE h.sent[2] = CMD_03)
    /\ (h.clear_ack = "nack" =>
          /\ Reads = 0
          /\ <<obd_data.dtc_codes, obd_data.dtc_count>> = h.codes_at_clear)

\* an acknowledged clear, the confirming read, and then the periodic query
C11_Witness ==
    /\ h.clear_ack = "ack"
    /\ Len(h.sent) = 3 /\ h.sent[2] = CMD_03 /\ StartsWith(h.sent[3], <<"0","1">>)

\* the field of the record that shows a PID
MetricField(pid_name) ==
    CASE pid_name = "COOLANT_TEMP"    -> "coolant_temp"
      [] pid_name = "RPM"             -> "rpm"
      [] pid_name = "SPEED"           -> "speed"
      [] pid_name = "INTAKE_TEMP"     -> "intake_temp"
      [] pid_name = "THROTTLE"        -> "throttle"
      [] pid_name = "BATTERY_VOLTAGE" -> "battery_voltage"

\* what the periodic query of a cycle does to the record: the step that sends
\* it and takes the answer writes nothing, and goes on to a publish only for
\* a decoded answer; the publish writes the field of the polled PID alone
QueryFrame ==
    /\ (obd_pc = "query" /\ obd_pc' # "query" =>
          /\ obd_data' = obd_data
          /\ (h'.poll = "failed" => obd_pc' = "loop_top")
          /\ (h'.poll = "decoded" => obd_pc' = "pub_lock"))
    /\ (obd_pc = "pub_lock" /\ obd_pc' # "pub_lock" =>
          /\ h.poll = "decoded"
          /\ \A f \in DOMAIN obd_data :
                f # MetricField(get_supported_pids[pid_index + 1])
                    => obd_data'[f] = obd_data[f])

\* C17 (stale-but-valid metrics): a periodic query that gets no answer, an
\* adapter error or an answer that does not decode leaves every field of the
\* record as it was; a decoded answer changes only the metric field of the
\* polled PID.
C17_StaleButValidMetrics == [][QueryFrame]_vars

\* two cycles: the first answer decoded and published, the second one not
\* decodable, and the record still shows the first value and nothing else
C17_Witness ==
    /\ h.cycles = 2 /\ h.poll = "failed" /\ obd_pc = "loop_top"
    /\ h.sent = <<get_pid_command("RPM")>>
    /\ obd_data.coolant_temp = <<83, 1>> /\ obd_data.rpm = <<0, 1>>

\* a step of a read_dtcs that got no answer leaves the published codes alone
NoResponseKeepsCodes ==
    h.rd_noresp => /\ obd_data'.dtc_codes = obd_data.dtc_codes
                   /\ obd_data'.dtc_count = obd_data.dtc_count

\* C18 (stale-but-valid diagnostic codes): when a Mode 03 read gets no
\* answer, the dtc_codes and dtc_count published before stay in the record.
C18_StaleButValidCodes == [][NoResponseKeepsCodes]_vars

\* the fields of the record other than the two intent flags
TelemetryFields == DOMAIN obd_data_init \ {"dtc_refresh", "dtc_clear"}

\* a step that is not obd2_thread's (its position stays) writes no telemetry
OnlyAcquisitionWritesTelemetry ==
    obd_pc' = obd_pc => \A f \in TelemetryFields : obd_data'[f] = obd_data[f]

\* C19 (single writer): display_thread writes only dtc_refresh and dtc_clear;
\* the six metrics, connected, error, dtc_codes, dtc_count and dtc_read are
\* written by obd2_thread alone.
C19_SingleWriter == [][OnlyAcquisitionWritesTelemetry]_vars

\* obd2_thread is inside a "with data_lock" block, between two assignments
InsideLockBlock ==
    obd_pc \in {"connfail_w2", "initfail_w2", "connected_w2", "rd_w2", "rd_w3"}

\* the lock is held exactly inside those blocks, where no connect(),
\* init_elm327() or send_command() runs and the holder can take its next step
LockDiscipline ==
    /\ data_lock \in {"free", "obd2"}
    /\ (data_lock = "obd2" <=> InsideLockBlock)
    /\ (data_lock = "obd2" => bt_pc = "idle" /\ ENABLED ObdNext)

\* the lock stays held over one step only inside read_dtcs' block of three
\* assignments, and only by a step of that block
HeldBriefly ==
    (data_lock = "obd2" /\ data_lock' = "obd2")
        => (obd_pc = "rd_w2" /\ obd_pc' = "rd_w3" /\ UNCHANGED dispVars)

\* C20 (short critical sections): data_lock is never held while a transport
\* command, a sleep or drawing is in progress: it is held only between the
\* assignments of a "with data_lock" block, at most three of them, after
\* which it is released; the holder is never blocked, so the other thread
\* waits for a bounded number of steps and there is no deadlock on data_lock.
C20_ShortCriticalSections == []LockDiscipline /\ [][HeldBriefly]_vars

\* display_thread waits for the lock to set a flag while read_dtcs is inside
\* its block, one assignment before the release
C20_Witness ==
    /\ data_lock = "obd2" /\ obd_pc = "rd_w3"
    /\ disp_pc = "write" /\ action = "refresh"

\* obd2_thread has ended: by a return, or by the exception of the initial
\* read_dtcs, which no handler catches
Terminated == obd_pc \in {"exit_connect_failed", "exit_init_failed", "crashed"}

\* C21 (no crash with a live flag): whenever obd2_thread has ended, also by
\* an exception raised while the initial diagnostic codes are read or decoded,
\* the record shows connected = False.
C21_NoCrashWithLiveFlag == Terminated => ~obd_data.connected

\* the PID the n-th iteration of the loop is to poll (n = 1, 2, ...)
PidOfCycle(n) == get_supported_pids[((n - 1) % Len(get_supported_pids)) + 1]

\* C22 (round-robin polling): every iteration of the polling loop, once it is
\* over, has sent exactly one periodic query, the n-th iteration the one for
\* entry (n - 1) mod 6 of COOLANT_TEMP, RPM, SPEED, INTAKE_TEMP, THROTTLE,
\* BATTERY_VOLTAGE, and the rotation then stands at n mod 6.
C22_RoundRobin ==
    (obd_pc = "loop_top" /\ h.cycles >= 1) =>
        /\ Polls = 1
        /\ h.sent[Len(h.sent)] = get_pid_command(PidOfCycle(h.cycles))
        /\ pid_index = h.cycles % Len(get_supported_pids)

\* C31 (no refresh is lost): a refresh request taken by the flag consumption
\* of a cycle is followed by a Mode 03 read on the transport, also when a
\* clear request was taken with it and the clear is not acknowledged: by the
\* time the cycle sends its periodic query, the read has been sent.
C31_NoRefreshLost ==
    (h.cycles >= 1 /\ refresh_requested /\ Polls >= 1) => Reads >= 1

\* what a step does to the request flags: the consumption reads and clears
\* both in one step, under the lock it took and releases; a flag that goes
\* from set to unset does so in a consumption, which has taken it
FlagTaken ==
    /\ (obd_pc = "loop_top" /\ h'.cycles # h.cycles =>
          /\ data_lock = "free" /\ data_lock' = "free"
          /\ refresh_requested' = obd_data.dtc_refresh
          /\ clear_requested' = obd_data.dtc_clear
          /\ ~obd_data'.dtc_refresh /\ ~obd_data'.dtc_clear)
    /\ (obd_data.dtc_refresh /\ ~obd_data'.dtc_refresh =>
          h'.cycles # h.cycles /\ refresh_requested')
    /\ (obd_data.dtc_clear /\ ~obd_data'.dtc_clear =>
          h'.cycles # h.cycles /\ clear_requested')

\* C32 (no lost signal across consumption): each request flag is read and
\* cleared in one critical section; a flag set after that section, for
\* example while the operation it triggered is running, stays set until the
\* next consumption takes it: a set since the last consumption is still in
\* the record, and nothing but a consumption that takes a flag unsets it.
C32_NoLostSignal ==
    /\ [](h.sets_pending >= 1 => obd_data.dtc_refresh)
    /\ [][FlagTaken]_vars

\* dtc_refresh was taken, the read it triggered is under way, and the flag
\* has been set again in the meantime
C32_Witness ==
    /\ h.cycles >= 1 /\ refresh_requested
    /\ obd_pc \in {"rd_send", "rd_lock", "rd_w2", "rd_w3"}
    /\ obd_data.dtc_refresh /\ h.sets_pending >= 1

\* C33 (connected implies initialized): the record's connected flag is True
\* only after connect() and then init_elm327() have both returned True; no
\* diagnostic-code command and no periodic query is sent before the flag is
\* True; and the initial Mode 03 read is sent before the first periodic
\* query: up to the first flag consumption it is the only command sent.
C33_ConnectedImpliesInitialized ==
    /\ (obd_data.connected => h.link = "initialized")
    /\ (~obd_data.connected => h.sent = <<>> /\ h.cycles = 0)
    /\ (h.cycles = 0 => h.sent \in {<<>>, <<CMD_03>>})
    /\ (obd_pc = "loop_top" /\ h.cycles = 0 => h.sent = <<CMD_03>>)

\* connected is published, the initial read has been sent, and the first
\* cycle has sent its periodic query
C33_Witness ==
    /\ obd_data.connected /\ h.link = "initialized"
    /\ h.cycles = 1 /\ ~clear_requested /\ ~refresh_requested
    /\ Polls = 1

\* C34 (count matches list): in every state in which data_lock is free,
\* dtc_count of the shared record is the number of entries of dtc_codes.
C34_CountMatchesList ==
    data_lock = "free" => obd_data.dtc_count = Len(obd_data.dtc_codes)

\* a read has published two codes and their count, and the lock is free again
C34_Witness ==
    /\ data_lock = "free"
    /\ Len(obd_data.dtc_codes) = 2 /\ obd_data.dtc_count = 2
    /\ obd_data.dtc_read

(***************************************************************************)
(* One BluetoothConnection under its caller, for either implementation and  *)
(* every configuration of PIN and auto_try_pins                             *)
(***************************************************************************)
ConnInit ==
    /\ obd_data = obd_data_init
    /\ data_lock = "free"
    /\ obd_pc = "none" /\ pid_index = 0
    /\ refresh_requested = FALSE /\ clear_requested = FALSE
    /\ dtc_list = <<>> /\ value = NoValue /\ rd_ret = "none"
    /\ \E pin \in {"1234", "0000"}, auto \in BOOLEAN :
         bt = BluetoothConnection(pin, auto)
    /\ bt_pc = "idle" /\ bt_op = "none" /\ bt_result = FALSE /\ init_index = 0
    /\ impl \in {"src", "micropython"}
    /\ btm_available \in (IF impl = "src" THEN {FALSE} ELSE BOOLEAN)
    /\ dev_index = 0
    /\ uart_open = {} /\ btm_open = FALSE
    /\ sc = sc_init(<<>>)
    /\ px = px_init
    /\ disp_pc = "none" /\ data_snapshot = <<>>
    /\ show_reconnect_screen = FALSE /\ reconnect_btn_visible = FALSE
    /\ current_page = 0 /\ dialog_visible = FALSE /\ clear_btn_visible = TRUE
    /\ action = "none"
    /\ calls = 0
    /\ h = h_init

ConnNext ==
    \/ ApiCall \/ ApiReturn
    \/ BtConnectOpen \/ BtConnectProbe \/ BtInitStep \/ BtDisconnect
    \/ MpConnectEnter \/ MpConnectBtm \/ MpConnectUart \/ MpDisconnect

ConnSpec == ConnInit /\ [][ConnNext]_vars

(***************************************************************************)
(* Properties of BluetoothConnection (ConnSpec)                             *)
(***************************************************************************)
\* connect() has returned to its caller (reconnect() included)
ConnectReturned == bt_pc = "ret" /\ bt_op = "connect"

\* the PIN the object held when the running connect() call began
PinAtCall == h.pins_tried[1]

\* C6 (close before reopen): whenever a BluetoothConnection of
\* src/obd2/bluetooth.py opens its transport (UART construction), every
\* handle it opened before has been closed; this covers reconnect() and the
\* alternate-PIN retry inside connect().
C6_CloseBeforeReopen == impl = "src" => ~h.reopened

\* the bounds of the retry alone: at most two PINs, the second one "0000",
\* at most one recursion, and one PIN when no alternate PIN is allowed
RetryBounded ==
    /\ Len(h.pins_tried) <= 2
    /\ h.conn_depth <= 1
    /\ Len(h.pins_tried) = h.conn_depth + (IF bt_pc = "open" THEN 0 ELSE 1)
         \/ h.pins_tried = <<>>
    /\ (Len(h.pins_tried) = 2 => h.pins_tried[2] = "0000" /\ PinAtCall # "0000")
    /\ (h.pins_tried # <<>> /\ (~bt.auto_try_pins \/ PinAtCall = "0000")
          => Len(h.pins_tried) = 1)

\* C7 (bounded PIN retry): a connect() call tries at most two PINs (the
\* configured one, then "0000"), recurses at most once, tries exactly one PIN
\* when auto_try_pins is False or the configured PIN is "0000", and ends by
\* returning to its caller, never by an exception.
C7_BoundedPinRetry == RetryBounded /\ bt_pc # "raised"

\* C8 (retry exhaustion): with auto_try_pins True and a configured PIN other
\* than "0000", connect() returns False only after an attempt with the
\* configured PIN and one with "0000".
C8_RetryExhaustion ==
    (ConnectReturned /\ ~bt_result /\ bt.auto_try_pins /\ PinAtCall # "0000")
        => h.pins_tried = <<PinAtCall, "0000">>

\* disconnect() has returned to its caller
DisconnectReturned == bt_pc = "ret" /\ bt_op = "disconnect"

\* C35 (disconnect() postcondition): after disconnect() returns,
\* is_connected() is False and a following send_command would return None
\* without writing to the transport, also when closing the transport raised.
C35_DisconnectPostcondition ==
    DisconnectReturned => ~bt.connected /\ ~CanSend

\* C36 (command goes to the live strategy): in the two-strategy
\* BluetoothConnection, whenever connected is True send_command takes the
\* branch (BTM or UART) of the connect step that established the connection,
\* and btm_mode is True only if the last successful connect went through
\* BTM, for every sequence of connect(), disconnect() and reconnect().
C36_LiveStrategy ==
    impl = "micropython" =>
        /\ (bt.btm_mode => h.via = "btm")
        /\ (bt.connected => (BtmBranch <=> h.via = "btm"))

\* C37 (PIN fallback is sticky): once connect() has switched its PIN to
\* "0000", the object keeps that PIN in every later connect() and
\* reconnect(), and every connect() call that begins after the switch makes
\* a single PIN attempt, with "0000".
C37_StickyPinFallback ==
    h.switched =>
        /\ bt.pin = "0000"
        /\ (h.pins_tried # <<>> /\ PinAtCall = "0000" =>
              h.pins_tried = <<"0000">> /\ h.conn_depth = 0)
        /\ (h.pins_tried # <<>> /\ PinAtCall # "0000" =>
              h.pins_tried \in {<<PinAtCall>>, <<PinAtCall, "0000">>})

\* the PIN was switched by an earlier call, and a later connect() has made
\* its one attempt with "0000" and returned
C37_Witness ==
    /\ h.switched /\ h.connect_calls >= 2
    /\ ConnectReturned /\ h.pins_tried = <<"0000">>

(***************************************************************************)
(* One send_command call on a BluetoothConnection of either implementation, *)
(* connected over the UART or over BTM, or not connected                    *)
(***************************************************************************)
SendInit ==
    /\ obd_data = obd_data_init
    /\ data_lock = "free"
    /\ obd_pc = "none" /\ pid_index = 0
    /\ refresh_requested = FALSE /\ clear_requested = FALSE
    /\ dtc_list = <<>> /\ value = NoValue /\ rd_ret = "none"
    /\ impl \in {"src", "micropython"}
    /\ btm_available \in (IF impl = "src" THEN {FALSE} ELSE BOOLEAN)
    /\ \E connected \in BOOLEAN, btm_mode \in {FALSE, btm_available} :
         /\ bt = [BluetoothConnection(BT_PIN, BT_AUTO_TRY_PINS) EXCEPT
                    !.connected = connected,
                    !.btm_mode  = connected /\ btm_mode,
                    !.uart      = IF connected /\ ~btm_mode THEN 1 ELSE 0]
         /\ uart_open = IF bt.uart = 1 THEN {1} ELSE {}
         /\ btm_open = bt.btm_mode
    /\ bt_pc = "idle" /\ bt_op = "none" /\ bt_result = FALSE /\ init_index = 0
    /\ dev_index = 0
    /\ \E pending \in PendingTexts : sc = sc_init(pending)
    /\ px = px_init
    /\ disp_pc = "none" /\ data_snapshot = <<>>
    /\ show_reconnect_screen = FALSE /\ reconnect_btn_visible = FALSE
    /\ current_page = 0 /\ dialog_visible = FALSE /\ clear_btn_visible = TRUE
    /\ action = "none"
    /\ calls = 0
    /\ h = h_init

SendNext == ScEnter \/ ScFlush \/ ScWrite \/ ScWait \/ ScReturn \/ AdapterSends

SendSpec == SendInit /\ [][SendNext]_vars

(***************************************************************************)
(* Properties of send_command (SendSpec)                                    *)
(***************************************************************************)
\* C14 (stale bytes are flushed): under the BTM branch and under the UART
\* branches, no byte that lay in the receive buffer when the command was
\* written is part of the text send_command returns.
C14_StaleFlushed == (sc.pc = "done" /\ sc.result # None) => ~sc.got_stale

\* C15 (send_command never blocks beyond its timeout): a call of the src
\* send_command, flush and wait together, has lasted no longer than its
\* timeout (one polling interval of overshoot allowed).
C15_BoundedBlocking == impl = "src" => sc.now <= sc.timeout + SleepMs

AdapterMaxBytes ==
    MaxBursts * (CHOOSE n \in 0..8 : /\ \E b \in Bursts : Len(b) = n
                                      /\ \A c \in Bursts : Len(c) <= n)

\* C28 (bounded response buffer): the buffer in which send_command
\* accumulates the response stays within a fixed bound whatever the adapter
\* sends before the prompt or the timeout: an answer as long as the adapter
\* can make it is not held in full.
C28_BoundedBuffer == Len(sc.response_data) < AdapterMaxBytes

\* init_elm327() has returned to its caller (reconnect() included)
InitReturned == bt_pc = "ret" /\ bt_op \in {"init_elm327", "reconnect"}

\* C12 (initialization sequence): init_elm327() of either implementation
\* writes ATZ, ATE0, ATL0, ATS0, ATSP0, ATAT1, 0100 in that order; a command
\* is written only when every earlier one got a non-empty answer without
\* ERROR or UNABLE; after an answer that is empty or holds ERROR or UNABLE no
\* further command is written and the result is False; and the result is True
\* only when all seven were written and answered well.
C12_InitSequence ==
    /\ Len(h.init_sent) <= Len(init_commands)
    /\ Len(h.init_answers) = Len(h.init_sent)
    /\ \A k \in 1..Len(h.init_sent) :
          /\ h.init_sent[k] = init_commands[k]
          /\ (k < Len(h.init_sent) => h.init_answers[k] = "good")
    /\ ((\E k \in 1..Len(h.init_answers) : h.init_answers[k] = "bad")
          => InitReturned /\ ~bt_result)
    /\ (InitReturned /\ bt_result
          => /\ Len(h.init_sent) = Len(init_commands)
             /\ \A k \in 1..Len(h.init_answers) : h.init_answers[k] = "good")

\* the micropython init_elm327() returned True after all seven commands
C12_Witness ==
    /\ InitReturned /\ bt_result /\ impl = "micropython"
    /\ h.init_sent = init_commands

\* C13 (initialization rejects every adapter error): init_elm327() of
\* src/obd2/bluetooth.py returns True only if no answer of the sequence held
\* NO DATA, ERROR, UNABLE, BUS INIT or ?.
C13_InitRejectsErrors ==
    (impl = "src" /\ InitReturned /\ bt_result) => ~h.init_keyword

(***************************************************************************)
(* The parser functions called on their own: OBD2Parser.parse_response,     *)
(* is_valid_response, parse_dtc_response and DTCCommands.decode_dtc, each   *)
(* applied once to an input drawn from a set of texts or bytes              *)
(***************************************************************************)
Bytes == 0..255

\* a few data bytes for the inputs that are not taken over the whole range
SampleBytes == {0, 15, 160, 255}

\* the PID codes obd2_thread polls
PolledPids == {PIDS(get_supported_pids[i]) : i \in 1..Len(get_supported_pids)}

\* PID_INFO: the number of data bytes of a polled PID
DataBytes(pid) == IF pid \in {<<"0","C">>, <<"4","2">>} THEN 2 ELSE 1

\* PID_INFO: the documented formula of a polled PID, as a fraction
PID_INFO(pid, A, B) ==
    CASE pid \in {<<"0","5">>, <<"0","F">>} -> <<A - 40, 1>>
      [] pid = <<"0","C">>                   -> <<A * 256 + B, 4>>
      [] pid = <<"0","D">>                   -> <<A, 1>>
      [] pid = <<"1","1">>                   -> <<A * 100, 255>>
      [] pid = <<"4","2">>                   -> <<A * 256 + B, 1000>>

\* two fractions are the same number
FracEq(x, y) == x[1] * y[2] = y[1] * x[2]

\* a byte as the adapter prints it: two upper-case hex digits
HexByte(a) == << HexDigits[(a \div 16) + 1], HexDigits[(a % 16) + 1] >>

\* the adapter's answer to a Mode 01 query: "41", the PID and the data bytes,
\* either as send_command returns it with spaces off ("410C0FA0\r>") or
\* with spaces ("41 0C 0F A0")
Mode01Answer(pid, A, B, spaced) ==
    IF spaced
    THEN <<"4","1"," ">> \o pid \o <<" ">> \o HexByte(A)
         \o (IF DataBytes(pid) = 2 THEN <<" ">> \o HexByte(B) ELSE <<>>)
    ELSE <<"4","1">> \o pid \o HexByte(A)
         \o (IF DataBytes(pid) = 2 THEN HexByte(B) ELSE <<>>) \o <<"\r",">">>

\* one call: the function, its arguments, and what the text was built from
ParserCall(fn, args, about) ==
    [fn |-> fn, args |-> args, about |-> about, done |-> FALSE, result |-> <<>>]

\* parse_response(response, pid): the answer for the requested PID over every
\* data byte, the same with spaces for a few bytes, and the answer for
\* another polled PID than the requested one
ParseResponseCalls(pids) ==
    { ParserCall("parse_response", <<Mode01Answer(c[1], c[2], c[3], FALSE), c[1]>>,
                 [pid |-> c[1], A |-> c[2], B |-> c[3]]) :
        c \in {d \in pids \X Bytes \X Bytes :
                    d[3] = 0 \/ DataBytes(d[1]) = 2} }
    \cup
    { ParserCall("parse_response", <<Mode01Answer(c[1], c[3], c[4], TRUE), c[2]>>,
                 [pid |-> c[1], A |-> c[3], B |-> c[4]]) :
        c \in pids \X pids \X SampleBytes \X SampleBytes }

LowerChar(c) ==
    IF \E i \in 1..26 : UpperLetters[i] = c
    THEN LowerLetters[CHOOSE i \in 1..26 : UpperLetters[i] = c]
    ELSE c

\* a keyword in every letter case: each letter upper or lower
CaseVariants(keyword) ==
    { [i \in 1..Len(keyword) |-> IF f[i] THEN keyword[i] ELSE LowerChar(keyword[i])] :
        f \in [1..Len(keyword) -> BOOLEAN] }

\* what stands before and after the keyword in a response
Before == { <<>>, <<" "," ">>, <<"\r","\n">>, <<"4","1"," ","0","5"," ">> }
After  == { <<>>, <<" ","\t">>, <<"\r",">">>, <<" ","4","1">> }

\* the text contains an error keyword, in any letter case
HasErrorKeyword(text) ==
    \E keyword \in error_keywords :
        \E variant \in CaseVariants(keyword) : Contains(text, variant)

\* is_valid_response(response): an error keyword in any letter case between
\* any of the surroundings, and answers without a keyword
IsValidResponseCalls(keywords) ==
    { ParserCall("is_valid_response", <<c[1] \o c[2] \o c[3]>>, <<>>) :
        c \in Before \X (UNION {CaseVariants(k) : k \in keywords}) \X After }
    \cup
    { ParserCall("is_valid_response", <<c[1] \o Mode01Answer(c[2], c[3], 0, TRUE) \o c[4]>>, <<>>) :
        c \in Before \X PolledPids \X SampleBytes \X After }

ApplyOnly == UNCHANGED <<sharedVars, obdVars, dispVars, bt, bt_pc, bt_op, bt_result,
                         init_index, impl, btm_available, dev_index, uart_open,
                         btm_open, sc, calls, h>>

ApplyParseResponse ==
    /\ px.fn = "parse_response" /\ ~px.done
    /\ px' = [px EXCEPT !.done = TRUE,
                        !.result = parse_response(px.args[1], px.args[2])]
    /\ ApplyOnly

ApplyIsValidResponse ==
    /\ px.fn = "is_valid_response" /\ ~px.done
    /\ px' = [px EXCEPT !.done = TRUE, !.result = is_valid_response(px.args[1])]
    /\ ApplyOnly

\* nothing of the program runs while a parser function is applied
ParserIdle ==
    /\ obd_data = obd_data_init
    /\ data_lock = "free"
    /\ obd_pc = "none" /\ pid_index = 0
    /\ refresh_requested = FALSE /\ clear_requested = FALSE
    /\ dtc_list = <<>> /\ value = NoValue /\ rd_ret = "none"
    /\ bt = BluetoothConnection(BT_PIN, BT_AUTO_TRY_PINS)
    /\ bt_pc = "idle" /\ bt_op = "none" /\ bt_result = FALSE /\ init_index = 0
    /\ impl = "src" /\ btm_available = FALSE /\ dev_index = 0
    /\ uart_open = {} /\ btm_open = FALSE
    /\ sc = sc_init(<<>>)
    /\ disp_pc = "none" /\ data_snapshot = <<>>
    /\ show_reconnect_screen = FALSE /\ reconnect_btn_visible = FALSE
    /\ current_page = 0 /\ dialog_visible = FALSE /\ clear_btn_visible = TRUE
    /\ action = "none"
    /\ calls = 0
    /\ h = h_init

ParseInit ==
    /\ ParserIdle
    /\ px \in ParseResponseCalls(PolledPids) \cup IsValidResponseCalls(error_keywords)

ParseNext == ApplyParseResponse \/ ApplyIsValidResponse

ParseSpec == ParseInit /\ [][ParseNext]_vars

(***************************************************************************)
(* Properties of the parser functions (ParseSpec)                           *)
(***************************************************************************)
\* parse_response has been applied
Parsed == px.fn = "parse_response" /\ px.done

\* C23 (PID validation): parse_response(response, pid) returns a value only
\* if the response, without spaces, line ends and prompt, begins with "41"
\* and then the requested PID; an answer to another PID is not decoded.
C23_PidValidation ==
    (Parsed /\ px.result # NoValue) =>
        StartsWith(RemoveChars(px.args[1], {" ", ">", "\r", "\n"}),
                   <<"4","1">> \o px.args[2])

\* C24 (decode formulas): for every data byte A, B and every polled PID,
\* parse_response on "41" + PID + hex bytes returns the documented formula of
\* the bytes: 05 and 0F A - 40, 0D A, 0C (256 A + B) / 4, 11 100 A / 255,
\* 42 (256 A + B) / 1000.
C24_DecodeFormulas ==
    (Parsed /\ px.about.pid = px.args[2]) =>
        /\ px.result # NoValue
        /\ FracEq(px.result, PID_INFO(px.about.pid, px.about.A, px.about.B))

\* "41 0C 0F A0" for PID 0C gives 1000
C24_Witness ==
    /\ Parsed
    /\ px.args = << <<"4","1"," ","0","C"," ","0","F"," ","A","0">>, <<"0","C">> >>
    /\ FracEq(px.result, <<1000, 1>>)

\* C25 (error detection): a response that contains NO DATA, ERROR, UNABLE,
\* BUS INIT or ? in any letter case, whatever whitespace surrounds it, is not
\* valid for is_valid_response, also when the text begins with "41".
C25_ErrorDetection ==
    (px.fn = "is_valid_response" /\ px.done /\ HasErrorKeyword(px.args[1])) =>
        px.result = FALSE

\* "41 05 no data" followed by whitespace is rejected
C25_Witness ==
    /\ px.fn = "is_valid_response" /\ px.done
    /\ px.args[1] = <<"4","1"," ","0","5"," ","n","o"," ","d","a","t","a"," ","\t">>
    /\ px.result = FALSE

(***************************************************************************)
(* Trouble-code decoding called on its own: DTCCommands.decode_dtc over     *)
(* every pair of bytes and OBD2Parser.parse_dtc_response over Mode 03       *)
(* answers of up to MaxGroups two-byte groups                                *)
(***************************************************************************)
\* a Mode 03 answer holds at most this many two-byte groups
MaxGroups == 3

\* the two-byte groups of the answers: the empty pair, the codes of two
\* common faults, and a pair whose first byte alone is zero
GroupSet == { <<0, 0>>, <<1, 51>>, <<4, 32>>, <<0, 195>> }

GroupLists == UNION { [1..n -> GroupSet] : n \in 0..MaxGroups }

RECURSIVE GroupsText(_, _)
GroupsText(groups, spaced) ==
    IF groups = <<>> THEN <<>>
    ELSE (IF spaced THEN <<" ">> ELSE <<>>) \o HexByte(groups[1][1])
         \o (IF spaced THEN <<" ">> ELSE <<>>) \o HexByte(groups[1][2])
         \o GroupsText(Tail(groups), spaced)

\* the groups before the first 00 00 pair
RECURSIVE BeforeZeroPair(_)
BeforeZeroPair(groups) ==
    IF groups = <<>> \/ groups[1] = <<0, 0>> THEN <<>>
    ELSE <<groups[1]>> \o BeforeZeroPair(Tail(groups))

\* the adapter's answer to Mode 03: "43", the count of codes and the groups
\* (codes, then 00 00 padding or whatever the frame holds), with
\* spaces ("43 02 01 33 04 20 00 00") or as send_command returns it with
\* spaces off ("4302013304200000\r>")
Mode03Answer(groups, spaced) ==
    IF spaced
    THEN <<"4","3"," ">> \o HexByte(Len(BeforeZeroPair(groups)))
         \o GroupsText(groups, TRUE)
    ELSE <<"4","3">> \o HexByte(Len(BeforeZeroPair(groups)))
         \o GroupsText(groups, FALSE)
         \o <<"\r",">">>

ParseDtcResponseCalls(lists) ==
    { ParserCall("parse_dtc_response", <<Mode03Answer(c[1], c[2])>>, c[1]) :
        c \in lists \X BOOLEAN }

DecodeDtcCalls(bytes) ==
    { ParserCall("decode_dtc", c, <<>>) : c \in bytes \X bytes }

ApplyParseDtcResponse ==
    /\ px.fn = "parse_dtc_response" /\ ~px.done
    /\ px' = [px EXCEPT !.done = TRUE, !.result = parse_dtc_response(px.args[1])]
    /\ ApplyOnly

ApplyDecodeDtc ==
    /\ px.fn = "decode_dtc" /\ ~px.done
    /\ px' = [px EXCEPT !.done = TRUE, !.result = decode_dtc(px.args[1], px.args[2])]
    /\ ApplyOnly

DtcInit ==
    /\ ParserIdle
    /\ px \in ParseDtcResponseCalls(GroupLists) \cup DecodeDtcCalls(Bytes)

DtcNext == ApplyParseDtcResponse \/ ApplyDecodeDtc

DtcSpec == DtcInit /\ [][DtcNext]_vars

CodeBytes(code) ==
    LET letter == CHOOSE i \in 0..3 : <<"P", "C", "B", "U">>[i + 1] = code[1]
    IN  << letter * 64 + HexCharVal(code[2]) * 16 + HexCharVal(code[3]),
           HexCharVal(code[4]) * 16 + HexCharVal(code[5]) >>

\* C27 (DTC code shape): for every byte1, byte2 in 0..255 decode_dtc returns
\* five characters: the category letter of the top two bits of byte1 (0 P,
\* 1 C, 2 B, 3 U), then the hex digits of bits 5-4 of byte1, of the low
\* nibble of byte1, of the high nibble of byte2 and of the low nibble of
\* byte2; the bytes can be read back from the code, so different byte pairs
\* give different codes.
C27_DtcCodeShape ==
    (px.fn = "decode_dtc" /\ px.done) =>
        LET byte1 == px.args[1]
            byte2 == px.args[2]
            code  == px.result
        IN  /\ Len(code) = 5
            /\ code[1] = <<"P", "C", "B", "U">>[(byte1 \div 64) + 1]
            /\ code[2] = HexDigits[((byte1 % 64) \div 16) + 1]
            /\ code[3] = HexDigits[(byte1 % 16) + 1]
            /\ code[4] = HexDigits[(byte2 \div 16) + 1]
            /\ code[5] = HexDigits[(byte2 % 16) + 1]
            /\ CodeBytes(code) = <<byte1, byte2>>

\* bytes D3 AF give U13AF
C27_Witness ==
    /\ px.fn = "decode_dtc" /\ px.done
    /\ px.args = <<211, 175>>
    /\ px.result = <<"U","1","3","A","F">>

(***************************************************************************)
(* The display thread on its own: every button of the screen can be         *)
(* touched, and the acquisition thread appears only through what it writes  *)
(* to the shared record                                                     *)
(***************************************************************************)
AllTouchPoints ==
    TouchPoints \cup { <<50, 290>>,     \* Dashboard (navigation bar)
                       <<400, 290>> }   \* Settings (navigation bar)

DispIterationAll == DispIterationOn(AllTouchPoints, TRUE)

CodeLists == { <<>>, << <<"P","0","1","3","3">>, <<"P","0","4","2","0">> >> }

\* obd2_thread as the display thread sees it: under data_lock it publishes
\* the connection state (main.py 141-156, 207-215), a code list (88-91) or
\* takes the request flags (173-179)
AcquisitionWrites ==
    /\ LockAvailable
    /\ \/ \E c \in BOOLEAN : obd_data' = [obd_data EXCEPT !.connected = c]
       \/ \E codes \in CodeLists :
            obd_data' = [obd_data EXCEPT !.dtc_codes = codes,
                                         !.dtc_count = Len(codes),
                                         !.dtc_read = TRUE]
       \/ obd_data' = ConsumeFlags(obd_data)
    /\ data_lock' = data_lock
    /\ h' = [h EXCEPT !.committed = obd_data', !.sets_pending = 0]
    /\ UNCHANGED <<obdVars, btVars, dispVars, calls>>

DisplayInit ==
    /\ obd_data = obd_data_init
    /\ data_lock = "free"
    /\ obd_pc = "none" /\ pid_index = 0
    /\ refresh_requested = FALSE /\ clear_requested = FALSE
    /\ dtc_list = <<>> /\ value = NoValue /\ rd_ret = "none"
    /\ bt = BluetoothConnection(BT_PIN, BT_AUTO_TRY_PINS)
    /\ bt_pc = "idle" /\ bt_op = "none" /\ bt_result = FALSE /\ init_index = 0
    /\ impl = "src" /\ btm_available = FALSE /\ dev_index = 0
    /\ uart_open = {} /\ btm_open = FALSE
    /\ sc = sc_init(<<>>)
    /\ px = px_init
    /\ disp_pc = "snapshot" /\ data_snapshot = <<>>
    /\ show_reconnect_screen = FALSE /\ reconnect_btn_visible = FALSE
    /\ current_page = 0 /\ dialog_visible = FALSE /\ clear_btn_visible = TRUE
    /\ action = "none"
    /\ calls = 0
    /\ h = h_init

DisplayNext == DispIterationAll \/ DispWrite \/ AcquisitionWrites

DisplaySpec == DisplayInit /\ [][DisplayNext]_vars

(***************************************************************************)
(* Properties of the display thread (DisplaySpec)                           *)
(***************************************************************************)
\* C29 (modal confirmation dialog): while the confirm dialog is visible no
\* touch has another effect than confirm_clear or cancel_clear; no touch
\* switches the page, so the dialog is never visible while the current page
\* is not Diagnostics.
C29_ModalDialog == dialog_visible => current_page = 1

\* a step of the touch handling: the display thread leaves its copy point
\* with the touch the observer noted
TouchStep == disp_pc = "snapshot" /\ obd_data' = obd_data /\ h'.touch # NoTouch

\* the touch goes to the Diagnostics page: no reconnect screen after this
\* iteration's check, the page is Diagnostics and stays it
PageGetsTouch ==
    TouchStep /\ ~show_reconnect_screen' /\ current_page = 1 /\ current_page' = 1

ClearNeedsConfirmation ==
    \* the flag is set by the write of a confirmed clear and by nothing else
    /\ (~obd_data.dtc_clear /\ obd_data'.dtc_clear) =>
           (disp_pc = "write" /\ action = "confirm_clear")
    \* a clear is confirmed by a touch on Yes with the dialog visible
    /\ (action # "confirm_clear" /\ action' = "confirm_clear") =>
           /\ PageGetsTouch /\ dialog_visible
           /\ is_touched(yes_btn, TRUE, h'.touch)
    \* the dialog appears by a touch on the visible Clear DTCs button, which
    \* requests nothing
    /\ (~dialog_visible /\ dialog_visible') =>
           /\ PageGetsTouch /\ clear_btn_visible
           /\ is_touched(clear_btn, TRUE, h'.touch)
           /\ action' = "none" /\ disp_pc' = "snapshot"
    \* a touch on No hides the dialog and requests nothing
    /\ (PageGetsTouch /\ dialog_visible /\ is_touched(no_btn, TRUE, h'.touch)) =>
           /\ ~dialog_visible'
           /\ action' = "none" /\ disp_pc' = "snapshot"

\* C30 (clear needs confirmation): dtc_clear is set to True only by a touch
\* on the dialog's Yes button while the confirm dialog is visible, and the
\* dialog becomes visible only by a touch on the visible Clear DTCs button;
\* a touch on Clear DTCs alone never sets dtc_clear, and a touch on No hides
\* the dialog without setting it.
C30_ClearNeedsConfirmation == [][ClearNeedsConfirmation]_vars

\* Yes has been touched on the visible dialog: the dialog is hidden and the
\* write of dtc_clear is the thread's next step
C30_Witness ==
    /\ disp_pc = "write" /\ action = "confirm_clear"
    /\ ~obd_data.dtc_clear
    /\ ~dialog_visible
    /\ is_touched(yes_btn, TRUE, h.touch)

====
